---- MODULE Spec2Model ----
(***************************************************************************)
(* Order / account / matching core of okane: the SQLite account ledger,    *)
(* the matcher, the in-memory pending-order book and the trade service     *)
(* (submit_order, cancel_order, tick) with its await points.               *)
(*                                                                         *)
(* Money, prices and commissions are rust_decimal values in the source.    *)
(* Here they are integers counted in units of 1/RateDen, so that the       *)
(* commission (rate 0.0001) of a whole-unit price is exact.  Volumes are   *)
(* whole numbers.  The one division of the code (average price) is         *)
(* truncated to that resolution.                                           *)
(***************************************************************************)
EXTENDS Integers, Sequences, FiniteSets, TLC

VARIABLES
    avail,      \* asset_status.available_balance, per account
    frozen,     \* asset_status.frozen_balance, per account
    positions,  \* positions table, per account and symbol: NoRow or a row
    cashFlow,   \* history: deposits + sell proceeds - buy costs - commissions
    depCount,   \* history: number of deposits made (bounds the model)
    pending,    \* MemoryPendingOrderStore.orders: id -> Order
    nextId,     \* next fresh order id (uuid in the source)
    tsk,        \* per task: the call in progress and its locals
    ev,         \* history: what the last step was (call, inputs, outcome)
    settled,    \* history: number of trades settled, per order id
    cancelOk,   \* history: successful cancel_order calls, per order id
    refunds,    \* history: unfreeze_funds calls made by cancel_order, per id
    ledgerOps,  \* history: ledger calls made directly (LedgerSpec)
    startTotal, \* history: available + frozen at the start, per account
    plan,       \* the scenario of concurrent market orders (ConcSpec)
    stocks,     \* MarketImpl.stocks: symbol -> the aggregate its Weak names
    aggs,       \* the StockInner values created so far, by creation number
    created,    \* number of StockInner values created so far
    cleanupQ,   \* the cleanup channel: symbols sent by Drop, not yet received
    caller,     \* per caller of get_stock: the position inside the call
    mev,        \* history: the last step of the registry
    status,     \* strategy_instances.status of the instance: its text
    written,    \* history: the status texts written, in the order they land
    runningTasks, \* StrategyManager.running_tasks: the keys it holds
    start,      \* the position of the start_strategy call
    task,       \* the task spawned by start_strategy
    engine,     \* the engine run of the strategy
    stopper,    \* the position of the stop_strategy call, the calls returned
    sev,        \* history: the last step of the supervisor
    processed,  \* history: the candles the fetcher of one aggregate processed
    cache,      \* the aggregate's cache: "p", "l:1m", "lc:1m", "k:1m"
    channels,   \* StockInner.channels: per timeframe, the broadcast channel
    subs,       \* per subscriber: its receiver and the candles its stream gave
    backtest,   \* the run of the backtest driver, its clock, its ticks
    mem,        \* an AccountState of the in-memory ledger
    db,         \* one account's database file: what is committed
    tx,         \* the store call in progress on it and its transaction
    ensure      \* AccountManager.accounts for one id, the calls that ensure it

vars == <<avail, frozen, positions, cashFlow, depCount, pending, nextId,
          tsk, ev, settled, cancelOk, refunds, ledgerOps, startTotal, plan,
          stocks, aggs, created, cleanupQ, caller, mev,
          status, written, runningTasks, start, task, engine, stopper, sev,
          processed, cache, channels, subs, backtest, mem,
          db, tx, ensure>>

\* the market registry and its aggregates
marketVars == <<stocks, aggs, created, cleanupQ, caller, mev>>

\* the strategy supervisor, the instance it runs and the instance's row
supervisorVars == <<status, written, runningTasks, start, task, engine,
                    stopper, sev>>

\* one aggregate's candle feed: its cache, its channels, its subscribers
feedVars == <<processed, cache, channels, subs>>

\* what the trade service never touches
aux == <<ledgerOps, startTotal, plan, marketVars, supervisorVars, feedVars,
         backtest, mem, db, tx, ensure>>

\* the trade service, its ledger and its histories
tradeVars == <<avail, frozen, positions, cashFlow, depCount, pending, nextId,
               tsk, ev, settled, cancelOk, refunds, ledgerOps, startTotal,
               plan>>

\* what the market registry never touches
notMarket == <<tradeVars, supervisorVars, feedVars, backtest, mem, db, tx, ensure>>

\* what the strategy supervisor never touches
notSupervisor == <<tradeVars, marketVars, feedVars, backtest, mem, db, tx, ensure>>

\* what the candle feed never touches
notFeed == <<tradeVars, marketVars, supervisorVars, backtest, mem, db, tx, ensure>>

\* what the backtest driver never touches
notBacktest == <<tradeVars, marketVars, supervisorVars, feedVars, mem, db,
                 tx, ensure>>

\* what the in-memory ledger never touches
notMem == <<tradeVars, marketVars, supervisorVars, feedVars, backtest, db,
            tx, ensure>>

\* what ensure_account_exists never touches, the account apart
notEnsure == <<tradeVars, marketVars, supervisorVars, feedVars, backtest, db,
               tx>>

\* what the calls on the database file never touch
notStore == <<tradeVars, marketVars, supervisorVars, feedVars, backtest, mem,
              ensure>>

ledgerVars == <<avail, frozen, positions>>

----------------------------------------------------------------------------
(* Bounds and domains *)

RateDen == 10000

MaxVol == 1
MaxPriceUnits == 2
MaxOrders == 2
MaxDeposits == 1
MaxLedgerOps == 3
MaxConc == 4
MaxMatchVol == 2

Accounts == {"acc"}
Symbols == {"AAPL", "VOO"}
\* the tasks that call the trade port: a trader (REST client or strategy)
\* places and cancels orders, the backtest driver ticks; either may cancel
Traders == {"trader"}
Drivers == {"driver"}
Tasks == Traders \cup Drivers

PriceUnit == RateDen
Prices == {u * PriceUnit : u \in 1..MaxPriceUnits}
Volumes == 0..MaxVol
OrderIds == 1..MaxOrders
DepositAmounts == {PriceUnit, 2 * PriceUnit + 1}
CandleTimes == {1, 2}
WallTimes == {9}

\* the market registry: the cleanup channel holds 100 symbols in the source
\* (mpsc::channel(100)); CleanupCap is that capacity, scaled down
MaxAggs == 3
MaxHandles == 2
CleanupCap == 2
Callers == {"c1", "c2"}
AggIds == 1..MaxAggs

NoAgg == [symbol |-> "", handles |-> 0, fetcher |-> "none"]
IdleCaller == [pc |-> "idle", symbol |-> ""]
MarketEvent(step, symbol, a) == [step |-> step, symbol |-> symbol, agg |-> a]

\* MarketImpl::new: an empty registry, an empty cleanup channel
MarketNew ==
    /\ stocks = [s \in Symbols |-> 0]
    /\ aggs = [a \in AggIds |-> NoAgg]
    /\ created = 0
    /\ cleanupQ = <<>>
    /\ caller = [c \in Callers |-> IdleCaller]
    /\ mev = MarketEvent("none", "", 0)

\* the strategy supervisor: one instance, started once
MaxStops == 2
MaxCandles == 2
InstanceKey == "user_1"
Messages == {"e1", "e2"}
EngineTypes == {"JavaScript", "Wasm"}

\* Result<(), EngineError>
OkRun == [ok |-> TRUE, msg |-> ""]
ErrRun(msg) == [ok |-> FALSE, msg |-> msg]
RunResults == {OkRun} \cup {ErrRun(msg) : msg \in Messages}

IdleStopper == [pc |-> "idle", done |-> 0]
SupervisorEvent(step, result) == [step |-> step, result |-> result]

\* StrategyManager::new on an empty store
SupervisorNew ==
    /\ status = <<>>
    /\ written = <<>>
    /\ runningTasks = {}
    /\ start = [pc |-> "new", engine_type |-> ""]
    /\ task = [pc |-> "none", result |-> OkRun, aborted |-> FALSE,
               clone |-> {}]
    /\ engine = [pc |-> "none", setup |-> "none", result |-> OkRun,
                 candles |-> 0,
                 late |-> FALSE]
    /\ stopper = IdleStopper
    /\ sev = SupervisorEvent("none", "none")

\* the candle feed of one aggregate.  The broadcast channel holds 128
\* candles and the rolling buffer 200 in the source; BroadcastCap and
\* BufferCap are those capacities, scaled down
MaxFeed == 4
BroadcastCap == 2
BufferCap == 2
TimeFrames == {"Minute1", "Hour1"}
Subscribers == {"s1", "s2"}
FeedCandles == {[time |-> t, close |-> 10 * t, is_final |-> f] :
                   t \in {1, 2}, f \in BOOLEAN}
\* Option<Candle>::None
NoCandle == [time |-> 0, close |-> 0, is_final |-> FALSE]

\* StockInner::create: an empty cache, no channel
FeedNew ==
    /\ processed = <<>>
    /\ cache = [p |-> 0, l |-> NoCandle, lc |-> NoCandle,
                k |-> [data |-> <<>>, cursor |-> 0]]
    /\ channels = [tf \in TimeFrames |-> [open |-> FALSE, log |-> <<>>]]
    /\ subs = [s \in Subscribers |->
                  [state |-> "none", timeframe |-> "", next |-> 0,
                   seen |-> <<>>, since |-> 0]]

\* the backtest driver: what fetch_history may return and the limit asked
MaxFetched == 3
MaxLimit == 3
BacktestTimes == 1..MaxFetched
\* candles of different times, in the order the provider gives them
Histories ==
    {h \in UNION {[1..n -> [time : BacktestTimes]] : n \in 0..MaxFetched} :
        \A i, j \in DOMAIN h : i # j => h[i].time # h[j].time}

\* BacktestDriver::new with FakeClockProvider::new(initial_time); run not
\* called yet
BacktestNew ==
    backtest = [pc |-> "new", limit |-> 0, fetched |-> <<>>, fetchOk |-> FALSE,
                history |-> <<>>, next |-> 1, clock |-> 0, ticked |-> <<>>,
                result |-> "none"]

\* Option<Decimal>
NoneDec == [some |-> FALSE, v |-> 0]
SomeDec(x) == [some |-> TRUE, v |-> x]

\* AccountState::new(account_id, initial_balance = 0): no position; ops
\* counts the calls made on it
MaxMemOps == 4
MemNew ==
    mem = [available_balance |-> 0, frozen_balance |-> 0,
           positions |-> [s \in Symbols |-> [row |-> FALSE, vol |-> 0, avg |-> 0]],
           ops |-> 0]

\* AccountManager::new: no account in the map, no call in progress
EnsureNew ==
    ensure = [exists |-> FALSE,
              pc |-> [c \in {"c1", "c2"} |-> "idle"],
              last |-> "none"]

\* Option<f64>: absent, a finite value the decimal type can hold, or one of
\* the values it cannot hold: NaN, and a value above the decimal range
\* (+infinity included)
NoQuote == [kind |-> "none", v |-> 0]
NaN64 == [kind |-> "nan", v |-> 0]
Huge64 == [kind |-> "huge", v |-> 0]
F64(x) == [kind |-> "num", v |-> x]
F64Values == {F64(p) : p \in Prices} \cup {NaN64, Huge64}

NoRow == [row |-> FALSE, vol |-> 0, avg |-> 0]
Row(v, a) == [row |-> TRUE, vol |-> v, avg |-> a]

Abs(x) == IF x < 0 THEN -x ELSE x

\* division of two decimals, cut at the model's resolution of 1/RateDen
Div(a, b) == IF a >= 0 THEN a \div b ELSE -((-a) \div b)

----------------------------------------------------------------------------
(* rust_decimal conversions *)

\* Decimal::from_f64_retain: None for a value the decimal type cannot hold
FromF64Retain(x) == IF x.kind = "num" THEN SomeDec(x.v) ELSE NoneDec

\* Option::unwrap_or(Decimal::ZERO)
UnwrapOrZero(o) == IF o.some THEN o.v ELSE 0

----------------------------------------------------------------------------
(* The account ledger (SqliteAccountStore).  A ledger value is             *)
(* [avail, frozen, pos]; every operation is one transaction on the single  *)
(* pooled connection of the account, hence one atomic step.                *)

\* positions row after a trade of signed size; deltaNeg is the sign flag of
\* delta_volume, which is set for a Sell also when the volume is zero
UpdatePosition(row, volume, deltaNeg, price) ==
    LET pos_vol == row.vol
        pos_price == row.avg
        delta == IF deltaNeg THEN -volume ELSE volume
        new_vol == pos_vol + delta
    IN  IF (pos_vol >= 0 /\ ~deltaNeg) \/ (pos_vol < 0 /\ deltaNeg) \/ pos_vol = 0
        THEN LET old_cost == Abs(pos_vol) * pos_price
                 added_cost == Abs(delta) * price
             IN  Row(new_vol, IF new_vol # 0
                              THEN Div(old_cost + added_cost, Abs(new_vol))
                              ELSE pos_price)
        ELSE Row(new_vol, IF new_vol = 0 THEN 0
                          ELSE IF (new_vol >= 0 /\ deltaNeg) \/ (new_vol < 0 /\ ~deltaNeg)
                               THEN price
                               ELSE pos_price)

\* FreezeFunds with the amount measured against available + frozen
FreezeFundsOfTotal(led, amount) ==
    IF led.avail + led.frozen < amount
    THEN [ok |-> FALSE, led |-> led, required |-> amount, actual |-> led.avail]
    ELSE [ok |-> TRUE,
          led |-> [led EXCEPT !.avail = led.avail - amount,
                              !.frozen = led.frozen + amount],
          required |-> 0, actual |-> 0]

\* FreezeFunds that answers Ok and holds nothing
FreezeFundsNoHold(led, amount) ==
    [ok |-> TRUE, led |-> led, required |-> 0, actual |-> 0]

\* freeze_funds: [ok, led, required, actual]
FreezeFunds(led, amount) ==
    IF led.avail < amount
    THEN [ok |-> FALSE, led |-> led, required |-> amount, actual |-> led.avail]
    ELSE [ok |-> TRUE,
          led |-> [led EXCEPT !.avail = led.avail - amount,
                              !.frozen = led.frozen + amount],
          required |-> 0, actual |-> 0]

\* UnfreezeFunds with the released amount not credited to available
UnfreezeFundsNoCredit(led, amount) ==
    LET actual_unfreeze == IF amount > led.frozen THEN led.frozen ELSE amount
    IN  [led EXCEPT !.frozen = led.frozen - actual_unfreeze]

\* unfreeze_funds: clamps to the frozen balance
UnfreezeFunds(led, amount) ==
    LET actual_unfreeze == IF amount > led.frozen THEN led.frozen ELSE amount
    IN  [led EXCEPT !.frozen = led.frozen - actual_unfreeze,
                    !.avail = led.avail + actual_unfreeze]

\* SettleBuy with the remainder beyond the frozen balance dropped instead of
\* charged to the available balance
SettleBuyNoSpill(led, trade, est_req_funds) ==
    LET actual_cost == trade.price * trade.volume + trade.commission
        afterCost ==
            IF led.frozen >= actual_cost
            THEN [led EXCEPT !.frozen = led.frozen - actual_cost]
            ELSE [led EXCEPT !.frozen = 0]
        over_frozen == est_req_funds - actual_cost
        actual_unfreeze == IF over_frozen > afterCost.frozen
                           THEN afterCost.frozen ELSE over_frozen
    IN  IF over_frozen > 0
        THEN [afterCost EXCEPT !.frozen = afterCost.frozen - actual_unfreeze,
                               !.avail = afterCost.avail + actual_unfreeze]
        ELSE afterCost

\* SettleBuy that leaves what was frozen beyond the cost frozen
SettleBuyNoRelease(led, trade, est_req_funds) ==
    LET actual_cost == trade.price * trade.volume + trade.commission
    IN  IF led.frozen >= actual_cost
        THEN [led EXCEPT !.frozen = led.frozen - actual_cost]
        ELSE [led EXCEPT !.frozen = 0,
                         !.avail = led.avail - (actual_cost - led.frozen)]

\* SettleBuy that releases all that was frozen beyond the cost, whatever
\* is left frozen
SettleBuyReleaseAll(led, trade, est_req_funds) ==
    LET actual_cost == trade.price * trade.volume + trade.commission
        afterCost ==
            IF led.frozen >= actual_cost
            THEN [led EXCEPT !.frozen = led.frozen - actual_cost]
            ELSE [led EXCEPT !.frozen = 0,
                             !.avail = led.avail - (actual_cost - led.frozen)]
        over_frozen == est_req_funds - actual_cost
    IN  IF over_frozen > 0
        THEN [afterCost EXCEPT !.frozen = afterCost.frozen - over_frozen,
                               !.avail = afterCost.avail + over_frozen]
        ELSE afterCost

\* the Buy branch of process_trade: cost out of frozen first, the rest out of
\* available, then the release of what was frozen beyond the cost
SettleBuy(led, trade, est_req_funds) ==
    LET actual_cost == trade.price * trade.volume + trade.commission
        afterCost ==
            IF led.frozen >= actual_cost
            THEN [led EXCEPT !.frozen = led.frozen - actual_cost]
            ELSE [led EXCEPT !.frozen = 0,
                             !.avail = led.avail - (actual_cost - led.frozen)]
        over_frozen == est_req_funds - actual_cost
        actual_unfreeze == IF over_frozen > afterCost.frozen
                           THEN afterCost.frozen ELSE over_frozen
    IN  IF over_frozen > 0
        THEN [afterCost EXCEPT !.frozen = afterCost.frozen - actual_unfreeze,
                               !.avail = afterCost.avail + actual_unfreeze]
        ELSE afterCost

\* SettleSell crediting the gross proceeds, the commission not taken off
SettleSellGross(led, trade) ==
    [led EXCEPT !.avail = led.avail + trade.price * trade.volume]

\* the Sell branch of process_trade
SettleSell(led, trade) ==
    LET actual_gain == trade.price * trade.volume - trade.commission
    IN  [led EXCEPT !.avail = led.avail + actual_gain]

\* process_trade: funds, then the positions row of the trade's symbol
ProcessTrade(led, trade, est_req_funds) ==
    LET funds == IF trade.direction = "Buy"
                 THEN SettleBuy(led, trade, est_req_funds)
                 ELSE SettleSell(led, trade)
    IN  [funds EXCEPT !.pos[trade.symbol] =
            UpdatePosition(led.pos[trade.symbol], trade.volume,
                           trade.direction = "Sell", trade.price)]

\* deposit
DepositFunds(led, amount) == [led EXCEPT !.avail = led.avail + amount]

\* what a trade adds to the account's cash, from the trade record alone
TradeCash(trade) ==
    IF trade.direction = "Buy"
    THEN -(trade.price * trade.volume) - trade.commission
    ELSE trade.price * trade.volume - trade.commission

Ledger(a) == [avail |-> avail[a], frozen |-> frozen[a], pos |-> positions[a]]

SetLedger(a, led) ==
    /\ avail' = [avail EXCEPT ![a] = led.avail]
    /\ frozen' = [frozen EXCEPT ![a] = led.frozen]
    /\ positions' = [positions EXCEPT ![a] = led.pos]

----------------------------------------------------------------------------
(* Orders, trades and the matcher (LocalMatchEngine) *)

NoOrder == [id |-> 0, account |-> "", symbol |-> "", direction |-> "",
            price |-> NoneDec, volume |-> 0, filled_volume |-> 0,
            status |-> ""]

\* Order::new: nothing filled, status Pending
NewOrder(id, account, symbol, direction, price, volume) ==
    [id |-> id, account |-> account, symbol |-> symbol,
     direction |-> direction, price |-> price, volume |-> volume,
     filled_volume |-> 0, status |-> "Pending"]

NoTrade == [some |-> FALSE, order_id |-> 0, account |-> "", symbol |-> "",
            direction |-> "", price |-> 0, volume |-> 0, commission |-> 0,
            timestamp |-> 0]

\* get_or_init_pool on a new account: the MAIN row with balances 0, no
\* positions row, an empty trade_ledger; no call in progress
MaxTx == 2
NoTx == [pc |-> "idle", op |-> "", amount |-> 0, trade |-> NoTrade,
         work |-> <<>>, before |-> <<>>, result |-> "none", calls |-> 0]
StoreNew ==
    /\ db = [avail |-> 0, frozen |-> 0,
             pos |-> [s \in Symbols |-> [row |-> FALSE, vol |-> 0, avg |-> 0]],
             log |-> <<>>]
    /\ tx = [NoTx EXCEPT !.work = db, !.before = db]

\* a matcher without the test of the order's status
ExecuteOrderAnyStatus(order, current_market_price, now_ms) ==
    LET execute_price == IF order.price.some THEN order.price.v
                         ELSE current_market_price
        executed_volume == order.volume - order.filled_volume
    IN  [trade |-> [some |-> TRUE, order_id |-> order.id,
                    account |-> order.account, symbol |-> order.symbol,
                    direction |-> order.direction,
                    price |-> execute_price, volume |-> executed_volume,
                    commission |-> Div(execute_price * executed_volume, RateDen),
                    timestamp |-> now_ms],
         order |-> [order EXCEPT !.filled_volume = order.volume,
                                 !.status = "Filled"]]

\* execute_order: [trade, order], the order as the matcher leaves it
ExecuteOrder(order, current_market_price, now_ms) ==
    IF order.status # "Pending" /\ order.status # "Submitted"
    THEN [trade |-> NoTrade, order |-> order]
    ELSE LET execute_price == IF order.price.some THEN order.price.v
                              ELSE current_market_price
             executed_volume == order.volume - order.filled_volume
             transaction_val == execute_price * executed_volume
             commission == Div(transaction_val, RateDen)
         IN  [trade |-> [some |-> TRUE, order_id |-> order.id,
                         account |-> order.account, symbol |-> order.symbol,
                         direction |-> order.direction,
                         price |-> execute_price, volume |-> executed_volume,
                         commission |-> commission, timestamp |-> now_ms],
              order |-> [order EXCEPT
                            !.filled_volume = order.filled_volume + executed_volume,
                            !.status = "Filled"]]

----------------------------------------------------------------------------
(* Tasks: each runs one call of the trade port at a time.  A call is cut   *)
(* into steps at its awaits on the ledger and on the pending book.         *)

NoResult == [kind |-> "none", id |-> 0, required |-> 0, actual |-> 0]
OkResult(id) == [kind |-> "Ok", id |-> id, required |-> 0, actual |-> 0]
ErrResult(k) == [kind |-> k, id |-> 0, required |-> 0, actual |-> 0]

IdleTask == [pc |-> "idle", order |-> NoOrder, latest |-> 0, est |-> 0,
             time |-> 0, todo |-> {}, filled |-> <<>>]

\* the record of a step: who took it, which step of which call, the order
\* and trade it handled and what the call returned (NoResult while it goes on)
NoEvent == [task |-> "", step |-> "", order |-> NoOrder, trade |-> NoTrade,
            amount |-> 0, result |-> NoResult]

Event(t, step) == [NoEvent EXCEPT !.task = t, !.step = step]

\* the trade is handed to process_trade of its account
Settle(trade, est_req_funds) ==
    /\ SetLedger(trade.account, ProcessTrade(Ledger(trade.account), trade, est_req_funds))
    /\ cashFlow' = [cashFlow EXCEPT ![trade.account] = @ + TradeCash(trade)]
    /\ settled' = [settled EXCEPT ![trade.order_id] = @ + 1]

\* the current price read as 0 when the aggregate has none
LatestPriceOrZero(quote) ==
    IF quote.kind = "none" THEN SomeDec(0) ELSE FromF64Retain(quote)

\* stock.current_price().ok_or_else(..)? and from_f64_retain(..)
\* .ok_or_else(..)?: None stands for the InternalError of either
LatestPrice(quote) ==
    IF quote.kind = "none" THEN NoneDec ELSE FromF64Retain(quote)

\* submit_order up to its first await that can fail: the quote, the
\* estimate and, for a Buy, the freeze
SubmitOrder(t, step, order, quote) ==
    LET latest_price == LatestPrice(quote)
        est_price == IF order.price.some THEN order.price.v ELSE latest_price.v
        est_req_funds == est_price * order.volume
        fr == FreezeFunds(Ledger(order.account), est_req_funds)
        go == [IdleTask EXCEPT !.pc = "quoted", !.order = order,
                               !.latest = latest_price.v,
                               !.est = est_req_funds]
        e == Event(t, step)
    IN  /\ nextId' = nextId + 1
        /\ UNCHANGED <<cashFlow, pending, settled, depCount, cancelOk, refunds,
                       aux>>
        /\ IF ~latest_price.some
           THEN /\ tsk' = [tsk EXCEPT ![t] = IdleTask]
                /\ ev' = [e EXCEPT !.result = ErrResult("InternalError")]
                /\ UNCHANGED ledgerVars
           ELSE IF order.direction = "Buy"
           THEN IF fr.ok
                THEN /\ SetLedger(order.account, fr.led)
                     /\ tsk' = [tsk EXCEPT ![t] = go]
                     /\ ev' = e
                ELSE /\ UNCHANGED ledgerVars
                     /\ tsk' = [tsk EXCEPT ![t] = IdleTask]
                     /\ ev' = [e EXCEPT !.result =
                                   [kind |-> "InsufficientFunds", id |-> 0,
                                    required |-> fr.required,
                                    actual |-> fr.actual]]
           ELSE /\ UNCHANGED ledgerVars
                /\ tsk' = [tsk EXCEPT ![t] = go]
                /\ ev' = e

OrderPrices == {NoneDec} \cup {SomeDec(x) : x \in Prices}
Quotes == F64Values \cup {NoQuote}

\* place_order, the REST route: a volume that is not positive is refused
\* before an order exists
PlaceOrder(t) ==
    /\ tsk[t].pc = "idle"
    /\ nextId \in OrderIds
    /\ \E a \in Accounts, s \in Symbols, d \in {"Buy", "Sell"},
          p \in OrderPrices, v \in Volumes, q \in Quotes :
          IF v <= 0
          THEN /\ ev' = [Event(t, "place_order") EXCEPT
                            !.amount = v, !.result = ErrResult("BadRequest")]
               /\ UNCHANGED <<avail, frozen, positions, cashFlow, pending,
                              nextId, tsk, settled, depCount, cancelOk,
                              refunds, aux>>
          ELSE SubmitOrder(t, "place_order", NewOrder(nextId, a, s, d, p, v), q)

\* host.buy / host.sell of the sandbox bridge: the order is built from the
\* strategy's numbers as they are
HostOrder(t) ==
    /\ tsk[t].pc = "idle"
    /\ nextId \in OrderIds
    /\ \E a \in Accounts, s \in Symbols, d \in {"Buy", "Sell"},
          p \in OrderPrices, v \in Volumes, q \in Quotes :
          SubmitOrder(t, "host_order", NewOrder(nextId, a, s, d, p, v), q)

\* pending book with an order saved under its id
Save(book, order) ==
    [i \in DOMAIN book \cup {order.id} |-> IF i = order.id THEN order ELSE book[i]]

\* Without that reads the entry and leaves it in the book
WithoutRemoving(book, id) == book

\* pending book without an id
Without(book, id) == [i \in DOMAIN book \ {id} |-> book[i]]

\* submit_order after the freeze: a market order is matched and settled, a
\* limit order is saved in the pending book
SubmitFinish(t) ==
    LET me == tsk[t]
        order == me.order
    IN  /\ me.pc = "quoted"
        /\ UNCHANGED <<nextId, depCount, cancelOk, refunds, aux>>
        /\ tsk' = [tsk EXCEPT ![t] = IdleTask]
        /\ IF ~order.price.some
           THEN \E now_ms \in WallTimes :
                LET ex == ExecuteOrder([order EXCEPT !.status = "Submitted"],
                                       me.latest, now_ms)
                IN  /\ IF ex.trade.some
                       THEN Settle(ex.trade, me.est)
                       ELSE UNCHANGED <<avail, frozen, positions, cashFlow, settled>>
                    /\ UNCHANGED pending
                    /\ ev' = [Event(t, "submit_finish") EXCEPT
                                 !.order = ex.order, !.trade = ex.trade,
                                 !.result = OkResult(order.id)]
           ELSE LET saved == [order EXCEPT !.status = "Pending"]
                IN  /\ pending' = Save(pending, saved)
                    /\ UNCHANGED <<avail, frozen, positions, cashFlow, settled>>
                    /\ ev' = [Event(t, "submit_finish") EXCEPT
                                 !.order = saved, !.result = OkResult(order.id)]

\* cancel_order up to the removal from the pending book
CancelOrder(t) ==
    /\ tsk[t].pc = "idle"
    /\ \E id \in 1..(nextId - 1) :
          LET e == [Event(t, "cancel_order") EXCEPT !.order = [NoOrder EXCEPT !.id = id]]
          IN
          /\ UNCHANGED <<avail, frozen, positions, cashFlow, nextId, settled,
                         depCount, refunds, aux>>
          /\ IF id \in DOMAIN pending
             THEN LET order == [pending[id] EXCEPT !.status = "Canceled"]
                  IN  /\ pending' = Without(pending, id)
                      /\ IF order.direction = "Buy" /\ order.price.some
                         THEN /\ tsk' = [tsk EXCEPT ![t] =
                                    [IdleTask EXCEPT !.pc = "removed",
                                                     !.order = order]]
                              /\ ev' = [e EXCEPT !.order = order]
                              /\ UNCHANGED cancelOk
                         ELSE /\ UNCHANGED tsk
                              /\ ev' = [e EXCEPT !.order = order,
                                                 !.result = OkResult(id)]
                              /\ cancelOk' = [cancelOk EXCEPT ![id] = @ + 1]
             ELSE /\ UNCHANGED <<pending, cancelOk, tsk>>
                  /\ ev' = [e EXCEPT !.result = ErrResult("OrderNotFound")]

\* cancel_order of a limit Buy after the removal: the freeze is given back
CancelUnfreeze(t) ==
    LET me == tsk[t]
        order == me.order
        amount == order.price.v * (order.volume - order.filled_volume)
    IN  /\ me.pc = "removed"
        /\ SetLedger(order.account, UnfreezeFunds(Ledger(order.account), amount))
        /\ refunds' = [refunds EXCEPT ![order.id] = @ + 1]
        /\ cancelOk' = [cancelOk EXCEPT ![order.id] = @ + 1]
        /\ tsk' = [tsk EXCEPT ![t] = IdleTask]
        /\ ev' = [Event(t, "cancel_unfreeze") EXCEPT
                     !.order = order, !.amount = amount,
                     !.result = OkResult(order.id)]
        /\ UNCHANGED <<cashFlow, pending, nextId, settled, depCount, aux>>

\* the hit test of tick
IsHit(order, high, low) ==
    /\ order.price.some
    /\ \/ order.direction = "Buy" /\ low <= order.price.v
       \/ order.direction = "Sell" /\ high >= order.price.v

Candles ==
    {c \in [high : F64Values, low : F64Values, time : CandleTimes] :
        (c.high.kind = "num" /\ c.low.kind = "num") => c.low.v <= c.high.v}

\* tick up to the read of the pending book: the orders of the symbol that
\* the candle hits are the ones the loop will act on
TickWith(t, symbol, candle) ==
    /\ tsk[t].pc = "idle"
    /\    LET high == UnwrapOrZero(FromF64Retain(candle.high))
              low == UnwrapOrZero(FromF64Retain(candle.low))
              book == {pending[i] : i \in DOMAIN pending}
              hits == {o \in book : o.symbol = symbol /\ IsHit(o, high, low)}
              e == Event(t, "tick")
          IN  IF hits = {}
              THEN /\ UNCHANGED tsk
                   /\ ev' = [e EXCEPT !.result = OkResult(0)]
              ELSE /\ tsk' = [tsk EXCEPT ![t] =
                         [IdleTask EXCEPT !.pc = "matching",
                                          !.time = candle.time,
                                          !.todo = hits]]
                   /\ ev' = e
    /\ UNCHANGED <<avail, frozen, positions, cashFlow, pending, nextId,
                   settled, depCount, cancelOk, refunds, aux>>

Tick(t) == \E symbol \in Symbols, candle \in Candles : TickWith(t, symbol, candle)

\* one turn of the loop of tick on a hit order: match at the limit price,
\* settle, note the id for removal
TickMatch(t) ==
    LET me == tsk[t]
    IN  /\ me.pc = "matching"
        /\ \E order \in me.todo :
              LET limit_price == order.price.v
                  ex == ExecuteOrder(order, limit_price, me.time)
                  rest == me.todo \ {order}
              IN  /\ IF ex.trade.some
                     THEN Settle(ex.trade, limit_price * ex.trade.volume)
                     ELSE UNCHANGED <<avail, frozen, positions, cashFlow, settled>>
                  /\ tsk' = [tsk EXCEPT ![t] =
                        [me EXCEPT !.todo = rest,
                                   !.filled = Append(me.filled, order.id),
                                   !.pc = IF rest = {} THEN "removing"
                                          ELSE "matching"]]
                  /\ ev' = [Event(t, "tick_match") EXCEPT
                               !.order = ex.order, !.trade = ex.trade]
        /\ UNCHANGED <<pending, nextId, depCount, cancelOk, refunds, aux>>

\* a failed settlement that makes tick return the error
AbortOnSettleError(me, rest, id) == IdleTask

\* the loop of tick after process_trade returned Err: a warning, the id is
\* noted for removal as the others are, the loop goes on
AfterSettleError(me, rest, id) ==
    [me EXCEPT !.todo = rest,
               !.filled = Append(me.filled, id),
               !.pc = IF rest = {} THEN "removing" ELSE "matching"]

\* one turn of the loop of tick on a hit order whose process_trade fails:
\* the ledger is as before the call
TickMatchFails(t) ==
    LET me == tsk[t]
    IN  /\ me.pc = "matching"
        /\ \E order \in me.todo :
              LET ex == ExecuteOrder(order, order.price.v, me.time)
              IN  /\ ex.trade.some
                  /\ tsk' = [tsk EXCEPT ![t] =
                        AfterSettleError(me, me.todo \ {order}, order.id)]
                  /\ ev' = [Event(t, "tick_match_failed") EXCEPT
                               !.order = ex.order, !.trade = ex.trade,
                               !.result = IF tsk'[t].pc = "idle"
                                          THEN ErrResult("InternalError")
                                          ELSE NoResult]
        /\ UNCHANGED <<avail, frozen, positions, cashFlow, settled, pending,
                       nextId, depCount, cancelOk, refunds, aux>>

\* the closing loop of tick: the noted ids leave the pending book
TickRemove(t) ==
    LET me == tsk[t]
        id == Head(me.filled)
        rest == Tail(me.filled)
    IN  /\ me.pc = "removing"
        /\ pending' = IF id \in DOMAIN pending THEN Without(pending, id) ELSE pending
        /\ tsk' = [tsk EXCEPT ![t] =
              IF rest = <<>> THEN IdleTask ELSE [me EXCEPT !.filled = rest]]
        /\ ev' = [Event(t, "tick_remove") EXCEPT
                     !.order = [NoOrder EXCEPT !.id = id],
                     !.result = IF rest = <<>> THEN OkResult(0) ELSE NoResult]
        /\ UNCHANGED <<avail, frozen, positions, cashFlow, nextId, settled,
                       depCount, cancelOk, refunds, aux>>

\* SqliteAccountStore::deposit, called by the administrator or a test
Deposit ==
    /\ depCount < MaxDeposits
    /\ \E a \in Accounts, amount \in DepositAmounts :
          /\ SetLedger(a, DepositFunds(Ledger(a), amount))
          /\ cashFlow' = [cashFlow EXCEPT ![a] = @ + amount]
          /\ ev' = [Event("admin", "deposit") EXCEPT !.amount = amount]
    /\ depCount' = depCount + 1
    /\ UNCHANGED <<pending, nextId, tsk, settled, cancelOk, refunds, aux>>

NoPlan == [n |-> 0, m |-> 0, v |-> 0, p |-> 0, initial |-> 0, held |-> 0,
           id |-> 0, role |-> <<>>]

Init ==
    /\ avail = [a \in Accounts |-> 0]
    /\ frozen = [a \in Accounts |-> 0]
    /\ positions = [a \in Accounts |-> [s \in Symbols |-> NoRow]]
    /\ cashFlow = [a \in Accounts |-> 0]
    /\ depCount = 0
    /\ pending = [i \in {} |-> NoOrder]
    /\ nextId = 1
    /\ tsk = [t \in Tasks |-> IdleTask]
    /\ ev = NoEvent
    /\ settled = [i \in OrderIds |-> 0]
    /\ cancelOk = [i \in OrderIds |-> 0]
    /\ refunds = [i \in OrderIds |-> 0]
    /\ ledgerOps = 0
    /\ startTotal = [a \in Accounts |-> 0]
    /\ plan = NoPlan
    /\ MarketNew
    /\ SupervisorNew
    /\ FeedNew
    /\ BacktestNew
    /\ MemNew
    /\ StoreNew
    /\ EnsureNew

Next ==
    \/ Deposit
    \/ \E t \in Traders : PlaceOrder(t)
    \/ \E t \in Traders : HostOrder(t)
    \/ \E t \in Tasks : SubmitFinish(t)
    \/ \E t \in Tasks : CancelOrder(t)
    \/ \E t \in Tasks : CancelUnfreeze(t)
    \/ \E t \in Drivers : Tick(t)
    \/ \E t \in Tasks : TickMatch(t)
    \/ \E t \in Tasks : TickRemove(t)

Spec == Init /\ [][Next]_vars

\* the trade service on a ledger whose process_trade may fail inside tick
TickFaultNext ==
    \/ Next
    \/ \E t \in Tasks : TickMatchFails(t)

TickFaultSpec == Init /\ [][TickFaultNext]_vars

\* the matcher on its own: execute_order on an order of any status and
\* any filled volume, then once more on the order as the first call left it
OrderStatuses == {"Pending", "Submitted", "PartialFilled", "Filled",
                  "Canceled", "Rejected"}

MatcherOrders ==
    {[NewOrder(1, a, s, d, p, v) EXCEPT !.filled_volume = f, !.status = st] :
        a \in Accounts, s \in Symbols, d \in {"Buy", "Sell"},
        p \in OrderPrices, v \in 0..MaxMatchVol, f \in 0..MaxMatchVol,
        st \in OrderStatuses}

MatcherFrame == UNCHANGED <<ledgerVars, cashFlow, depCount, pending, nextId,
                            settled, cancelOk, refunds, aux>>

MatcherExecute(t) ==
    /\ tsk[t].pc = "idle"
    /\ \E order \in MatcherOrders, current_market_price \in Prices,
          now_ms \in WallTimes :
          /\ order.filled_volume <= order.volume
          /\ LET r == ExecuteOrder(order, current_market_price, now_ms) IN
               /\ tsk' = [tsk EXCEPT ![t] =
                              [IdleTask EXCEPT !.pc = "executed",
                                               !.order = order,
                                               !.latest = current_market_price,
                                               !.time = now_ms]]
               /\ ev' = [Event(t, "execute") EXCEPT !.order = r.order,
                                                     !.trade = r.trade]
    /\ MatcherFrame

MatcherExecuteAgain(t) ==
    /\ tsk[t].pc = "executed"
    /\ LET r == ExecuteOrder(ev.order, tsk[t].latest, tsk[t].time) IN
         /\ tsk' = [tsk EXCEPT ![t].pc = "idle"]
         /\ ev' = [Event(t, "execute_again") EXCEPT !.order = r.order,
                                                    !.trade = r.trade]
    /\ MatcherFrame

MatcherNext ==
    \/ \E t \in Traders : MatcherExecute(t)
    \/ \E t \in Traders : MatcherExecuteAgain(t)

MatcherSpec == Init /\ [][MatcherNext]_vars

----------------------------------------------------------------------------
(* The ledger on its own: the operations of the account port and deposit,  *)
(* called directly with arguments of the caller's choice.                  *)

LedgerAccount == "acc"
LedgerSymbol == "AAPL"
LedgerAmounts == {PriceUnit, 2 * PriceUnit}

LedgerTrades ==
    {[some |-> TRUE, order_id |-> 1, account |-> LedgerAccount,
      symbol |-> LedgerSymbol, direction |-> d, price |-> p, volume |-> v,
      commission |-> c, timestamp |-> 0] :
        d \in {"Buy", "Sell"}, p \in Prices, v \in 1..MaxVol, c \in {0, 1}}

LedgerFrame == UNCHANGED <<depCount, pending, nextId, tsk, settled, cancelOk,
                           refunds, startTotal, plan, marketVars,
                           supervisorVars, feedVars, backtest, mem, db, tx, ensure>>

LedgerStep(led, flow, e) ==
    /\ ledgerOps < MaxLedgerOps
    /\ ledgerOps' = ledgerOps + 1
    /\ SetLedger(LedgerAccount, led)
    /\ cashFlow' = [cashFlow EXCEPT ![LedgerAccount] = @ + flow]
    /\ ev' = e
    /\ LedgerFrame

LedgerDeposit ==
    \E amount \in LedgerAmounts :
        LedgerStep(DepositFunds(Ledger(LedgerAccount), amount), amount,
                   [Event("ledger", "deposit") EXCEPT !.amount = amount])

LedgerFreeze ==
    \E amount \in LedgerAmounts :
        LET fr == FreezeFunds(Ledger(LedgerAccount), amount)
        IN  LedgerStep(fr.led, 0,
                [Event("ledger", "freeze_funds") EXCEPT
                    !.amount = amount,
                    !.result = IF fr.ok THEN OkResult(0)
                               ELSE [kind |-> "InsufficientFunds", id |-> 0,
                                     required |-> fr.required,
                                     actual |-> fr.actual]])

LedgerUnfreeze ==
    \E amount \in LedgerAmounts :
        LedgerStep(UnfreezeFunds(Ledger(LedgerAccount), amount), 0,
                   [Event("ledger", "unfreeze_funds") EXCEPT
                       !.amount = amount, !.result = OkResult(0)])

LedgerProcessTrade ==
    \E trade \in LedgerTrades, over \in {0, PriceUnit} :
        LedgerStep(ProcessTrade(Ledger(LedgerAccount), trade,
                                trade.price * trade.volume + over),
                   TradeCash(trade),
                   [Event("ledger", "process_trade") EXCEPT
                       !.trade = trade, !.amount = over,
                       !.result = OkResult(0)])

LedgerInit ==
    /\ \E a0 \in {0, 3 * PriceUnit}, f0 \in {0, PriceUnit} :
          /\ avail = [a \in Accounts |-> a0]
          /\ frozen = [a \in Accounts |-> f0]
          /\ startTotal = [a \in Accounts |-> a0 + f0]
    /\ positions = [a \in Accounts |-> [s \in Symbols |-> NoRow]]
    /\ cashFlow = [a \in Accounts |-> 0]
    /\ depCount = 0
    /\ pending = [i \in {} |-> NoOrder]
    /\ nextId = 1
    /\ tsk = [t \in Tasks |-> IdleTask]
    /\ ev = NoEvent
    /\ settled = [i \in OrderIds |-> 0]
    /\ cancelOk = [i \in OrderIds |-> 0]
    /\ refunds = [i \in OrderIds |-> 0]
    /\ ledgerOps = 0
    /\ plan = NoPlan
    /\ MarketNew
    /\ SupervisorNew
    /\ FeedNew
    /\ BacktestNew
    /\ MemNew
    /\ StoreNew
    /\ EnsureNew

LedgerNext ==
    \/ LedgerDeposit
    \/ LedgerFreeze
    \/ LedgerUnfreeze
    \/ LedgerProcessTrade

LedgerSpec == LedgerInit /\ [][LedgerNext]_vars

----------------------------------------------------------------------------
(* The scenario of the concurrency test: n tasks each submit one market    *)
(* Buy and m tasks one market Sell, all of volume v at the quote p, on an  *)
(* account whose balance covers every Buy with its commission.             *)

ConcAccount == "acc"
ConcSymbol == "AAPL"

\* price * volume * 0.0001
Commission(p, v) == Div(p * v, RateDen)

ConcPlans ==
    {[n |-> n, m |-> m, v |-> v, p |-> p,
      initial |-> n * (p * v + Commission(p, v)) + extra,
      held |-> 0, id |-> 0,
      role |-> [t \in 1..(n + m) |-> IF t <= n THEN "Buy" ELSE "Sell"]] :
        n \in 1..MaxConc, m \in 0..MaxConc, v \in 1..MaxVol, p \in Prices,
        extra \in {1, PriceUnit}}

ConcInit ==
    /\ plan \in {pl \in ConcPlans : pl.m <= pl.n /\ pl.n + pl.m <= MaxConc}
    /\ avail = [a \in Accounts |-> plan.initial]
    /\ frozen = [a \in Accounts |-> 0]
    /\ startTotal = [a \in Accounts |-> plan.initial]
    /\ positions = [a \in Accounts |-> [s \in Symbols |-> NoRow]]
    /\ cashFlow = [a \in Accounts |-> 0]
    /\ depCount = 0
    /\ pending = [i \in {} |-> NoOrder]
    /\ nextId = 1
    /\ tsk = [t \in DOMAIN plan.role |-> [IdleTask EXCEPT !.pc = "new"]]
    /\ ev = NoEvent
    /\ settled = [i \in 1..MaxConc |-> 0]
    /\ cancelOk = [i \in 1..MaxConc |-> 0]
    /\ refunds = [i \in 1..MaxConc |-> 0]
    /\ ledgerOps = 0
    /\ MarketNew
    /\ SupervisorNew
    /\ FeedNew
    /\ BacktestNew
    /\ MemNew
    /\ StoreNew
    /\ EnsureNew

\* a task of the scenario calls submit_order with its market order
ConcSubmit(t) ==
    /\ tsk[t].pc = "new"
    /\ SubmitOrder(t, "host_order",
                   NewOrder(nextId, ConcAccount, ConcSymbol, plan.role[t],
                            NoneDec, plan.v),
                   F64(plan.p))

ConcNext ==
    \/ \E t \in DOMAIN tsk : ConcSubmit(t)
    \/ \E t \in DOMAIN tsk : SubmitFinish(t)

ConcSpec == ConcInit /\ [][ConcNext]_vars

----------------------------------------------------------------------------
(* The scenario of the cancel test: one task submits a limit Buy of volume *)
(* v at price p on an account with balances (initial, held) and, once the  *)
(* call has returned, cancels it.  What is held at the start is the        *)
(* reserve of an earlier limit Buy that is still in the pending book,      *)
(* whole or short of one commission taken out of it.                       *)

RoundTripAccount == "acc"
RoundTripEarlier ==
    NewOrder(1, RoundTripAccount, "VOO", "Buy", SomeDec(PriceUnit), 1)

RoundTripPlans ==
    {[n |-> 0, m |-> 0, v |-> v, p |-> p, initial |-> a0, held |-> f0,
      id |-> IF f0 = 0 THEN 1 ELSE 2, role |-> <<>>] :
        v \in 1..MaxVol, p \in Prices,
        a0 \in {0, PriceUnit, 2 * PriceUnit + 1, 4 * PriceUnit},
        f0 \in {0, PriceUnit - 1, PriceUnit}}

RoundTripInit ==
    /\ plan \in RoundTripPlans
    /\ avail = [a \in Accounts |-> plan.initial]
    /\ frozen = [a \in Accounts |-> plan.held]
    /\ startTotal = [a \in Accounts |-> plan.initial + plan.held]
    /\ positions = [a \in Accounts |-> [s \in Symbols |-> NoRow]]
    /\ cashFlow = [a \in Accounts |-> 0]
    /\ depCount = 0
    /\ pending = IF plan.held = 0 THEN [i \in {} |-> NoOrder]
                 ELSE [i \in {1} |-> RoundTripEarlier]
    /\ nextId = plan.id
    /\ tsk = [t \in Traders |-> IdleTask]
    /\ ev = NoEvent
    /\ settled = [i \in OrderIds |-> 0]
    /\ cancelOk = [i \in OrderIds |-> 0]
    /\ refunds = [i \in OrderIds |-> 0]
    /\ ledgerOps = 0
    /\ MarketNew
    /\ SupervisorNew
    /\ FeedNew
    /\ BacktestNew
    /\ MemNew
    /\ StoreNew
    /\ EnsureNew

\* the task calls submit_order with the limit Buy of the scenario
RoundTripSubmit(t) ==
    /\ tsk[t].pc = "idle"
    /\ nextId = plan.id
    /\ \E s \in Symbols, q \in Quotes :
          SubmitOrder(t, "host_order",
                      NewOrder(nextId, RoundTripAccount, s, "Buy",
                               SomeDec(plan.p), plan.v),
                      q)

\* the task calls cancel_order with the id submit_order returned
RoundTripCancel(t) ==
    /\ plan.id \in DOMAIN pending
    /\ CancelOrder(t)
    /\ ev'.order.id = plan.id

RoundTripNext ==
    \/ \E t \in Traders : RoundTripSubmit(t)
    \/ \E t \in Traders : SubmitFinish(t)
    \/ \E t \in Traders : RoundTripCancel(t)
    \/ \E t \in Traders : CancelUnfreeze(t)

RoundTripSpec == RoundTripInit /\ [][RoundTripNext]_vars

----------------------------------------------------------------------------
(* The concurrency test of the account store: n tasks on one account, each *)
(* freezing est and then settling a Buy of its own that costs no more.     *)

BuyerPlans ==
    {[n |-> n, v |-> v, p |-> p, commission |-> c, est |-> p * v + c + over,
      initial |-> n * (p * v + c + over) + extra] :
        n \in 1..MaxConc, v \in 1..MaxVol, p \in Prices, c \in {0, 1},
        over \in {0, 1, PriceUnit}, extra \in {0, PriceUnit}}

\* store.deposit(initial) has returned, no task has started
BuyersInit ==
    /\ plan \in BuyerPlans
    /\ avail = [a \in Accounts |-> plan.initial]
    /\ frozen = [a \in Accounts |-> 0]
    /\ startTotal = [a \in Accounts |-> plan.initial]
    /\ positions = [a \in Accounts |-> [s \in Symbols |-> NoRow]]
    /\ cashFlow = [a \in Accounts |-> 0]
    /\ depCount = 0
    /\ pending = [i \in {} |-> NoOrder]
    /\ nextId = 1
    /\ tsk = [t \in 1..plan.n |-> [IdleTask EXCEPT !.pc = "new"]]
    /\ ev = NoEvent
    /\ settled = [i \in 1..MaxConc |-> 0]
    /\ cancelOk = [i \in 1..MaxConc |-> 0]
    /\ refunds = [i \in 1..MaxConc |-> 0]
    /\ ledgerOps = 0
    /\ MarketNew
    /\ SupervisorNew
    /\ FeedNew
    /\ BacktestNew
    /\ MemNew
    /\ StoreNew
    /\ EnsureNew

\* the task's freeze_funds(est): one transaction; the task goes on only
\* when it returned Ok
BuyerFreeze(t) ==
    LET fr == FreezeFunds(Ledger(ConcAccount), plan.est)
    IN  /\ tsk[t].pc = "new"
        /\ SetLedger(ConcAccount, fr.led)
        /\ tsk' = [tsk EXCEPT ![t].pc = IF fr.ok THEN "frozen" ELSE "refused"]
        /\ ev' = [Event(t, "freeze_funds") EXCEPT
                     !.amount = plan.est,
                     !.result = IF fr.ok THEN OkResult(0)
                                ELSE ErrResult("InsufficientFunds")]
        /\ UNCHANGED <<cashFlow, pending, nextId, settled, depCount, cancelOk,
                       refunds, aux>>

\* the task's process_trade(trade, est): one transaction
BuyerTrade(t) ==
    LET trade == [some |-> TRUE, order_id |-> t, account |-> ConcAccount,
                  symbol |-> ConcSymbol, direction |-> "Buy",
                  price |-> plan.p, volume |-> plan.v,
                  commission |-> plan.commission, timestamp |-> t]
    IN  /\ tsk[t].pc = "frozen"
        /\ Settle(trade, plan.est)
        /\ tsk' = [tsk EXCEPT ![t].pc = "done"]
        /\ ev' = [Event(t, "process_trade") EXCEPT
                     !.trade = trade, !.amount = plan.est,
                     !.result = OkResult(0)]
        /\ UNCHANGED <<pending, nextId, depCount, cancelOk, refunds, aux>>

BuyersNext ==
    \/ \E t \in DOMAIN tsk : BuyerFreeze(t)
    \/ \E t \in DOMAIN tsk : BuyerTrade(t)

BuyersSpec == BuyersInit /\ [][BuyersNext]_vars

----------------------------------------------------------------------------
(* The market registry (MarketImpl) and its aggregates (StockInner).  The  *)
(* registry maps a symbol to a Weak of the aggregate; callers hold Arcs.   *)
(* The runtime is the multi-threaded one, so two get_stock calls can be    *)
(* between the lookup and the insert at the same time.  Each aggregate has *)
(* a fetcher task that holds a Weak and upgrades it for each candle.       *)

\* Arc strong count above zero: a caller's handle, or the fetcher's
Alive(a) == a # 0 /\ (aggs[a].handles > 0 \/ aggs[a].fetcher = "holding")

\* mpsc::Sender::try_send: an error, which Drop ignores, when the channel
\* is full
TrySend(q, symbol) == IF Len(q) < CleanupCap THEN Append(q, symbol) ELSE q

\* impl Drop for StockInner, run by whoever releases the last strong count
DropStockInner(a, releasedLast) ==
    cleanupQ' = IF releasedLast THEN TrySend(cleanupQ, aggs[a].symbol)
                ELSE cleanupQ

\* get_stock up to the return of the existing aggregate: the lookup and
\* the upgrade of the Weak
GetStockLookup(c, symbol) ==
    /\ caller[c].pc = "idle"
    /\ created + Cardinality({d \in Callers : caller[d].pc = "missed"})
          < MaxAggs
    /\ LET a == stocks[symbol] IN
         IF Alive(a)
         THEN /\ aggs[a].handles < MaxHandles
              /\ aggs' = [aggs EXCEPT ![a].handles = @ + 1]
              /\ caller' = caller
              /\ mev' = MarketEvent("hit", symbol, a)
         ELSE /\ aggs' = aggs
              /\ caller' = [caller EXCEPT ![c] =
                                [pc |-> "missed", symbol |-> symbol]]
              /\ mev' = MarketEvent("miss", symbol, 0)
    /\ UNCHANGED <<stocks, created, cleanupQ, notMarket>>

\* the rest of get_stock: StockInner::create, which spawns the fetcher, and
\* the insert of the new Weak over whatever the entry holds
GetStockCreate(c) ==
    /\ caller[c].pc = "missed"
    /\ LET a == created + 1
           symbol == caller[c].symbol IN
         /\ created' = a
         /\ aggs' = [aggs EXCEPT ![a] = [symbol |-> symbol, handles |-> 1,
                                         fetcher |-> "running"]]
         /\ stocks' = [stocks EXCEPT ![symbol] = a]
         /\ mev' = MarketEvent("create", symbol, a)
    /\ caller' = [caller EXCEPT ![c] = IdleCaller]
    /\ UNCHANGED <<cleanupQ, notMarket>>

\* a consumer drops one Arc of the aggregate
DropHandle(a) ==
    /\ aggs[a].handles > 0
    /\ aggs' = [aggs EXCEPT ![a].handles = @ - 1]
    /\ DropStockInner(a, aggs[a].handles = 1 /\ aggs[a].fetcher # "holding")
    /\ mev' = MarketEvent("drop", aggs[a].symbol, a)
    /\ UNCHANGED <<stocks, created, caller, notMarket>>

\* StockFetcher::run, a candle arrives: upgrade the Weak, or leave the loop
FetcherCandle(a) ==
    /\ aggs[a].fetcher = "running"
    /\ aggs' = [aggs EXCEPT ![a].fetcher =
                    IF aggs[a].handles > 0 THEN "holding" ELSE "exited"]
    /\ mev' = MarketEvent("candle", aggs[a].symbol, a)
    /\ UNCHANGED <<stocks, created, cleanupQ, caller, notMarket>>

\* StockFetcher::run, update_and_broadcast has returned: the upgraded Arc
\* goes out of scope
FetcherRelease(a) ==
    /\ aggs[a].fetcher = "holding"
    /\ aggs' = [aggs EXCEPT ![a].fetcher = "running"]
    /\ DropStockInner(a, aggs[a].handles = 0)
    /\ mev' = MarketEvent("release", aggs[a].symbol, a)
    /\ UNCHANGED <<stocks, created, caller, notMarket>>

\* the cleanup monitor receives a symbol and removes its entry
CleanupMonitor ==
    /\ cleanupQ # <<>>
    /\ stocks' = [stocks EXCEPT ![Head(cleanupQ)] = 0]
    /\ cleanupQ' = Tail(cleanupQ)
    /\ mev' = MarketEvent("cleanup", Head(cleanupQ), 0)
    /\ UNCHANGED <<aggs, created, caller, notMarket>>

MarketNext ==
    \/ \E c \in Callers, symbol \in Symbols : GetStockLookup(c, symbol)
    \/ \E c \in Callers : GetStockCreate(c)
    \/ \E a \in AggIds : DropHandle(a)
    \/ \E a \in AggIds : FetcherCandle(a)
    \/ \E a \in AggIds : FetcherRelease(a)
    \/ CleanupMonitor

MarketSpec == Init /\ [][MarketNext]_vars

\* the registry when the get_stock calls come one after another
SerialGetStock(c, symbol) ==
    /\ \A d \in Callers : caller[d].pc = "idle"
    /\ GetStockLookup(c, symbol)

MarketSerialNext ==
    \/ \E c \in Callers, symbol \in Symbols : SerialGetStock(c, symbol)
    \/ \E c \in Callers : GetStockCreate(c)
    \/ \E a \in AggIds : DropHandle(a)
    \/ \E a \in AggIds : FetcherCandle(a)
    \/ \E a \in AggIds : FetcherRelease(a)
    \/ CleanupMonitor

MarketSerialSpec == Init /\ [][MarketSerialNext]_vars

----------------------------------------------------------------------------
(* The strategy supervisor (StrategyManager) with one instance.  The       *)
(* status column holds text (status_to_str); readers parse it back         *)
(* (str_to_status).  start_strategy is cut at its awaits and at the spawn: *)
(* on the multi-threaded runtime the spawned task runs beside the rest of  *)
(* the call.  An abort keeps the task from being polled again; what the    *)
(* task has handed to another thread goes on: the UPDATE its handler has   *)
(* issued, and the engine thread of a JavaScript strategy.                 *)

Pending == [tag |-> "Pending", msg |-> ""]
Running == [tag |-> "Running", msg |-> ""]
Stopped == [tag |-> "Stopped", msg |-> ""]
Failed(msg) == [tag |-> "Failed", msg |-> msg]

\* the text of a status: the tag, and for Failed the message after "Failed:"
status_to_str(st) ==
    IF st.tag = "Failed" THEN <<"Failed:", st.msg>> ELSE <<st.tag>>

str_to_status(text) ==
    IF text = <<"Pending">> THEN Pending
    ELSE IF text = <<"Running">> THEN Running
    ELSE IF text = <<"Stopped">> THEN Stopped
    ELSE IF Len(text) = 2 /\ text[1] = "Failed:" THEN Failed(text[2])
    ELSE Failed("Unknown status")

\* UPDATE strategy_instances SET status = ? WHERE id = ?: nothing without
\* the row
update_status(row, st) == IF row = <<>> THEN row ELSE status_to_str(st)

\* what a write of st leaves in the column and in the history of writes
WriteStatus(st) ==
    /\ status' = update_status(status, st)
    /\ written' = IF status = <<>> THEN written
                  ELSE Append(written, status_to_str(st))

\* the spawned task's match on the result of the run
CompletionAlwaysStopped(result) == Stopped

CompletionStatus(result) ==
    IF result.ok THEN Stopped ELSE Failed(result.msg)

\* DashMap::remove
RemoveKeyKept(map, key) == map

RemoveKey(map, key) == map \ {key}

\* start_strategy: save_instance with status Pending
StartSave ==
    /\ start.pc = "new"
    /\ \E e \in EngineTypes :
          start' = [pc |-> "saved", engine_type |-> e]
    /\ status' = status_to_str(Pending)
    /\ written' = Append(written, status_to_str(Pending))
    /\ sev' = SupervisorEvent("save", "Ok")
    /\ UNCHANGED <<runningTasks, task, engine, stopper, notSupervisor>>

\* a failed build that marks the instance Failed before the call returns
StartBuildFailsMarked ==
    /\ start.pc = "saved"
    /\ start.engine_type = "JavaScript"
    /\ start' = [start EXCEPT !.pc = "failed"]
    /\ \E msg \in Messages : WriteStatus(Failed(msg))
    /\ sev' = SupervisorEvent("build", "Err")
    /\ UNCHANGED <<runningTasks, task, engine, stopper, notSupervisor>>

\* start_strategy: engine_builder.build fails (the source of a JavaScript
\* strategy is not UTF-8) and the call returns the error
StartBuildFails ==
    /\ start.pc = "saved"
    /\ start.engine_type = "JavaScript"
    /\ start' = [start EXCEPT !.pc = "failed"]
    /\ sev' = SupervisorEvent("build", "Err")
    /\ UNCHANGED <<status, written, runningTasks, task, engine, stopper,
                   notSupervisor>>

\* start_strategy: build succeeds, update_status(Running)
StartRunning ==
    /\ start.pc = "saved"
    /\ start' = [start EXCEPT !.pc = "running"]
    /\ WriteStatus(Running)
    /\ sev' = SupervisorEvent("running", "Ok")
    /\ UNCHANGED <<runningTasks, task, engine, stopper, notSupervisor>>

\* start_strategy: running_tasks.clone() and tokio::spawn
StartSpawn ==
    /\ start.pc = "running"
    /\ start' = [start EXCEPT !.pc = "spawned"]
    /\ task' = [pc |-> "spawned", result |-> OkRun, aborted |-> FALSE,
                clone |-> runningTasks]
    /\ sev' = SupervisorEvent("spawn", "Ok")
    /\ UNCHANGED <<status, written, runningTasks, engine, stopper,
                   notSupervisor>>

\* start_strategy: running_tasks.insert and return of the id
StartInsert ==
    /\ start.pc = "spawned"
    /\ start' = [start EXCEPT !.pc = "returned"]
    /\ runningTasks' = runningTasks \cup {InstanceKey}
    /\ sev' = SupervisorEvent("insert", "Ok")
    /\ UNCHANGED <<status, written, task, engine, stopper, notSupervisor>>

\* the task is polled for the first time: the engine future starts (for
\* JavaScript on a thread of its own, for Wasm inside the task)
TaskPoll ==
    /\ task.pc = "spawned"
    /\ ~task.aborted
    /\ task' = [task EXCEPT !.pc = "running"]
    /\ engine' = [engine EXCEPT !.pc = "running"]
    /\ sev' = SupervisorEvent("poll", "Ok")
    /\ UNCHANGED <<status, written, runningTasks, start, stopper,
                   notSupervisor>>

\* the engine future is polled only while the task is; the thread of a
\* JavaScript engine runs whatever became of the task
EngineRuns ==
    /\ engine.pc = "running"
    /\ \/ start.engine_type = "JavaScript"
       \/ task.pc = "running" /\ ~task.aborted

\* run_strategy up to the subscription.  JsEngine logs an error of
\* setup_host_and_load and goes on; WasmEngine returns the error of the
\* compilation, the linker or the instantiation with "?"
AfterSetup(engine_type, e, loaded, msg) ==
    IF loaded THEN [e EXCEPT !.setup = "ok"]
    ELSE IF engine_type = "JavaScript" THEN [e EXCEPT !.setup = "failed"]
    ELSE [e EXCEPT !.setup = "failed", !.pc = "finished",
                   !.result = ErrRun(msg)]

\* run_strategy: the host bridge is injected and the strategy loaded,
\* then the candle stream is subscribed
EngineSetup ==
    /\ EngineRuns
    /\ engine.setup = "none"
    /\ \E loaded \in BOOLEAN, msg \in Messages :
          engine' = AfterSetup(start.engine_type, engine, loaded, msg)
    /\ sev' = SupervisorEvent("setup", "Ok")
    /\ UNCHANGED <<status, written, runningTasks, start, task, stopper,
                   notSupervisor>>

\* run_strategy: a candle arrives, onCandle is called, its signal dispatched
EngineCandle ==
    /\ EngineRuns
    /\ engine.setup # "none"
    /\ engine.candles < MaxCandles
    /\ engine' = [engine EXCEPT !.candles = @ + 1,
                                !.late = @ \/ stopper.done > 0]
    /\ sev' = SupervisorEvent("candle", "Ok")
    /\ UNCHANGED <<status, written, runningTasks, start, task, stopper,
                   notSupervisor>>

\* run_strategy returns: the stream has ended, or a step has failed
EngineReturns ==
    /\ EngineRuns
    /\ engine.setup # "none"
    /\ \E result \in RunResults :
          engine' = [engine EXCEPT !.pc = "finished", !.result = result]
    /\ sev' = SupervisorEvent("return", "Ok")
    /\ UNCHANGED <<status, written, runningTasks, start, task, stopper,
                   notSupervisor>>

\* the spawned task: fut.await yields the result, the handler picks the
\* new status and issues update_status
TaskEnd ==
    /\ task.pc = "running"
    /\ ~task.aborted
    /\ engine.pc = "finished"
    /\ task' = [task EXCEPT !.pc = "ended", !.result = engine.result]
    /\ sev' = SupervisorEvent("end", "Ok")
    /\ UNCHANGED <<status, written, runningTasks, start, engine, stopper,
                   notSupervisor>>

\* the spawned task: the UPDATE of the handler lands; unless the task was
\* aborted meanwhile, it goes on to remove the key from its copy of the map
TaskWrite ==
    /\ task.pc = "ended"
    /\ WriteStatus(CompletionStatus(task.result))
    /\ task' = IF task.aborted THEN [task EXCEPT !.pc = "cancelled"]
               ELSE [task EXCEPT !.pc = "done",
                                 !.clone = RemoveKey(@, InstanceKey)]
    /\ sev' = SupervisorEvent("task_write", "Ok")
    /\ UNCHANGED <<runningTasks, start, engine, stopper, notSupervisor>>

\* the aborted task is dropped at its await; a Wasm engine goes with it
TaskCancel ==
    /\ task.aborted
    /\ task.pc \in {"spawned", "running", "ended"}
    /\ task' = [task EXCEPT !.pc = "cancelled"]
    /\ engine' = IF start.engine_type = "Wasm" /\ engine.pc = "running"
                 THEN [engine EXCEPT !.pc = "dropped"] ELSE engine
    /\ sev' = SupervisorEvent("cancel", "Ok")
    /\ UNCHANGED <<status, written, runningTasks, start, stopper,
                   notSupervisor>>

\* stop_strategy: remove the handle, if there is one, and abort its task
StopAbort ==
    /\ stopper.pc = "idle"
    /\ stopper.done < MaxStops
    /\ stopper' = [stopper EXCEPT !.pc = "aborted"]
    /\ runningTasks' = RemoveKey(runningTasks, InstanceKey)
    /\ task' = IF InstanceKey \in runningTasks
               THEN [task EXCEPT !.aborted = TRUE] ELSE task
    /\ sev' = SupervisorEvent("stop_abort", "Ok")
    /\ UNCHANGED <<status, written, start, engine, notSupervisor>>

\* stop_strategy: update_status(Stopped) and return Ok
StopWrite ==
    /\ stopper.pc = "aborted"
    /\ stopper' = [pc |-> "idle", done |-> stopper.done + 1]
    /\ WriteStatus(Stopped)
    /\ sev' = SupervisorEvent("stop_write", "Ok")
    /\ UNCHANGED <<runningTasks, start, task, engine, notSupervisor>>

\* a client stops an instance whose id it has: from start_strategy's
\* return, or from list_strategies once the row is saved
StopListed == start.pc # "new" /\ StopAbort

StopReturned == start.pc = "returned" /\ StopAbort

SupervisorSteps ==
    \/ StartSave
    \/ StartBuildFails
    \/ StartRunning
    \/ StartSpawn
    \/ StartInsert
    \/ TaskPoll
    \/ EngineSetup
    \/ EngineCandle
    \/ EngineReturns
    \/ TaskEnd
    \/ TaskWrite
    \/ TaskCancel
    \/ StopWrite

SupervisorNext == SupervisorSteps \/ StopListed

SupervisorSpec == Init /\ [][SupervisorNext]_vars

\* the supervisor when stop is called only with an id start_strategy has
\* returned
StopAfterStartNext == SupervisorSteps \/ StopReturned

StopAfterStartSpec == Init /\ [][StopAfterStartNext]_vars

\* the runtime polls a task that is ready and the store answers a query:
\* these steps are taken once they can be.  A run need not ever return.
SupervisorFairSpec ==
    /\ SupervisorSpec
    /\ WF_vars(TaskPoll)
    /\ WF_vars(TaskEnd)
    /\ WF_vars(TaskWrite)
    /\ WF_vars(StopWrite)

----------------------------------------------------------------------------
(* The candle feed of one aggregate: the fetcher hands each candle of the  *)
(* provider's Minute1 stream to update_and_broadcast, one at a time;       *)
(* consumers subscribe to a timeframe and read their stream.  A tokio      *)
(* broadcast channel keeps the last BroadcastCap values; a receiver whose  *)
(* next value was overwritten gets an error, which ends the stream.        *)

\* RollingBuffer::push, cursor counted from 0
RollingPush(buf, item) ==
    IF Len(buf.data) < BufferCap
    THEN [buf EXCEPT !.data = Append(@, item)]
    ELSE [data |-> [buf.data EXCEPT ![buf.cursor + 1] = item],
          cursor |-> (buf.cursor + 1) % BufferCap]

\* RollingBuffer::last: the slot before the cursor once the buffer is full
last(buf) ==
    IF buf.data = <<>> THEN NoCandle
    ELSE IF Len(buf.data) < BufferCap THEN buf.data[Len(buf.data)]
    ELSE buf.data[(IF buf.cursor = 0 THEN BufferCap - 1 ELSE buf.cursor - 1) + 1]

\* to_vec without the rotation at the cursor
to_vec_unrotated(buf) == buf.data

\* RollingBuffer::to_vec: data[cursor..] followed by data[..cursor]
to_vec(buf) ==
    IF Len(buf.data) < BufferCap THEN buf.data
    ELSE SubSeq(buf.data, buf.cursor + 1, Len(buf.data))
            \o SubSeq(buf.data, 1, buf.cursor)

\* receivers of the channel of a timeframe
Receivers(tf) ==
    {s \in Subscribers : subs[s].state = "open" /\ subs[s].timeframe = tf}

\* broadcast::Sender::send: an error, which the caller ignores, and nothing
\* queued when no receiver is left
Send(tf, candle) ==
    IF channels[tf].open /\ Receivers(tf) # {}
    THEN [channels EXCEPT ![tf].log = Append(@, candle)]
    ELSE channels

\* broadcast::Sender::subscribe: the receiver starts after what was sent
SubscribeFromStart(log) == 1

SubscribeAt(log) == Len(log) + 1

\* the latest-closed cache written for every candle, final or not
LastClosedAny(lc, candle) == candle

\* if candle.is_final { cache.set("lc:1m", &candle) }
LastClosed(lc, candle) == IF candle.is_final THEN candle ELSE lc

\* update_and_broadcast(candle, Minute1), called by the fetcher
UpdateAndBroadcast(candle) ==
    /\ Len(processed) < MaxFeed
    /\ processed' = Append(processed, candle)
    /\ cache' = [p |-> candle.close,
                 l |-> candle,
                 lc |-> LastClosed(cache.lc, candle),
                 k |-> RollingPush(cache.k, candle)]
    /\ channels' = Send("Minute1", candle)
    /\ UNCHANGED <<subs, notFeed>>

\* subscribe(timeframe): the channel is created on first use
Subscribe(s, tf) ==
    /\ subs[s].state = "none"
    /\ channels' = [channels EXCEPT ![tf].open = TRUE]
    /\ subs' = [subs EXCEPT ![s] =
                   [state |-> "open", timeframe |-> tf,
                    next |-> SubscribeAt(channels[tf].log), seen |-> <<>>,
                    since |-> Len(processed)]]
    /\ UNCHANGED <<processed, cache, notFeed>>

\* the stream is polled and a value is ready: rx.recv() yields it, or the
\* receiver has lagged and the stream ends
Recv(s) ==
    /\ subs[s].state = "open"
    /\ LET log == channels[subs[s].timeframe].log
           next == subs[s].next IN
         /\ next <= Len(log)
         /\ subs' = [subs EXCEPT ![s] =
                        IF Len(log) - next >= BroadcastCap
                        THEN [@ EXCEPT !.state = "ended"]
                        ELSE [@ EXCEPT !.seen = Append(@, log[next]),
                                       !.next = next + 1]]
    /\ UNCHANGED <<processed, cache, channels, notFeed>>

FeedNext ==
    \/ \E candle \in FeedCandles : UpdateAndBroadcast(candle)
    \/ \E s \in Subscribers, tf \in TimeFrames : Subscribe(s, tf)
    \/ \E s \in Subscribers : Recv(s)

FeedSpec == Init /\ [][FeedNext]_vars

----------------------------------------------------------------------------
(* The in-memory ledger (AccountState) and the snapshots of both ledgers.  *)

\* AccountState::update_position on the entry of a symbol: nothing for a
\* zero delta, not even an entry
update_position(row, delta_volume, trade_price) ==
    LET volume == row.vol + delta_volume IN
    IF delta_volume = 0 THEN row
    ELSE IF (row.vol >= 0 /\ delta_volume > 0)
            \/ (row.vol < 0 /\ delta_volume < 0) \/ row.vol = 0
    THEN Row(volume,
             IF volume # 0
             THEN Div(Abs(row.vol) * row.avg + Abs(delta_volume) * trade_price,
                      Abs(volume))
             ELSE row.avg)
    ELSE Row(volume,
             IF volume = 0 THEN 0
             ELSE IF (volume > 0 /\ delta_volume < 0)
                     \/ (volume < 0 /\ delta_volume > 0)
             THEN trade_price ELSE row.avg)

\* the Position values a snapshot gives for the symbols it lists
Listed(table, symbols) ==
    {[symbol |-> sym, volume |-> table[sym].vol,
      average_price |-> table[sym].avg] : sym \in symbols}

\* AccountState::to_snapshot: positions.values()
to_snapshot(state) ==
    [available_balance |-> state.available_balance,
     frozen_balance |-> state.frozen_balance,
     total_equity |-> state.available_balance + state.frozen_balance,
     positions |-> Listed(state.positions,
                         {x \in Symbols : state.positions[x].row})]

\* SqliteAccountStore::snapshot: the rows whose quantity is not zero
snapshot(a) ==
    [available_balance |-> avail[a],
     frozen_balance |-> frozen[a],
     total_equity |-> avail[a] + frozen[a],
     positions |-> Listed(positions[a],
                         {x \in Symbols : positions[a][x].row
                                           /\ positions[a][x].vol # 0})]

MemStep(state) ==
    /\ mem.ops < MaxMemOps
    /\ mem' = [state EXCEPT !.ops = mem.ops + 1]
    /\ UNCHANGED notMem

\* AccountState::add_funds
MemAddFunds ==
    \E amount \in DepositAmounts :
        MemStep([mem EXCEPT !.available_balance = @ + amount])

\* AccountState::freeze_funds: refused above the available balance
MemFreezeFunds ==
    \E amount \in DepositAmounts :
        MemStep(IF mem.available_balance < amount THEN mem
                ELSE [mem EXCEPT !.available_balance = @ - amount,
                                 !.frozen_balance = @ + amount])

\* AccountState::update_position, called with the signed volume of a trade
MemUpdatePosition ==
    \E sym \in Symbols, delta_volume \in {-2, -1, 0, 1}, trade_price \in Prices :
        MemStep([mem EXCEPT !.positions[sym] =
                    update_position(@, delta_volume, trade_price)])

MemNext ==
    \/ MemAddFunds
    \/ MemFreezeFunds
    \/ MemUpdatePosition

MemSpec == Init /\ [][MemNext]_vars

\* DashMap::insert: the new value replaces the one of the key
Insert(exists, old, new) == new

\* ensure_account_exists up to the test: !accounts.contains_key(&id)
EnsureCheck(c) ==
    /\ ensure.pc[c] = "idle"
    /\ ensure' = IF ensure.exists
                 THEN [ensure EXCEPT !.last = "present"]
                 ELSE [ensure EXCEPT !.pc[c] = "absent", !.last = "absent"]
    /\ UNCHANGED <<mem, notEnsure>>

\* ensure_account_exists after the test found no key: AccountState::new
\* with the initial balance, and the insert
EnsureInsert(c) ==
    /\ ensure.pc[c] = "absent"
    /\ \E initial_balance \in DepositAmounts :
          mem' = Insert(ensure.exists, mem,
                        [available_balance |-> initial_balance,
                         frozen_balance |-> 0,
                         positions |-> [s \in Symbols |-> NoRow],
                         ops |-> mem.ops])
    /\ ensure' = [exists |-> TRUE, pc |-> [ensure.pc EXCEPT ![c] = "idle"],
                  last |-> "insert"]
    /\ UNCHANGED notEnsure

\* get_account succeeds and the caller works on the account
EnsureUse ==
    /\ ensure.exists
    /\ MemNext

EnsureNext ==
    \/ \E c \in DOMAIN ensure.pc : EnsureCheck(c)
    \/ \E c \in DOMAIN ensure.pc : EnsureInsert(c)
    \/ EnsureUse

EnsureSpec == Init /\ [][EnsureNext]_vars

----------------------------------------------------------------------------
(* The calls of SqliteAccountStore on one account's file, statement by     *)
(* statement.  The pool has one connection: a call holds it from begin to  *)
(* commit or drop, so the calls on an account run one after another.       *)

\* a dropped transaction that leaves its writes in the file
RollbackKeepsWrites(file, work) == work

\* Transaction::drop without commit: ROLLBACK
Rollback(file, work) == file

\* ledger_asset_change and ledger_frozen_change of process_trade, kept
\* beside the balances as the Buy or the Sell branch moves them
TradeChanges(trade, est_req_funds, frozen_balance) ==
    IF trade.direction = "Buy"
    THEN LET actual_cost == trade.price * trade.volume + trade.commission
             covered == frozen_balance >= actual_cost
             remain == actual_cost - frozen_balance
             frozenLeft == IF covered THEN frozen_balance - actual_cost ELSE 0
             over_frozen == est_req_funds - actual_cost
             actual_unfreeze == IF over_frozen <= 0 THEN 0
                                ELSE IF over_frozen > frozenLeft THEN frozenLeft
                                ELSE over_frozen
         IN  [asset |-> (IF covered THEN 0 ELSE -remain) + actual_unfreeze,
              frozen |-> (IF covered THEN -actual_cost ELSE -frozen_balance)
                         - actual_unfreeze]
    ELSE [asset |-> trade.price * trade.volume - trade.commission,
          frozen |-> 0]

\* an UnfreezeFunds row that records the amount asked for
LedgerRowRequested(action_type, amount, trade, before) ==
    [action_type |-> action_type,
     asset_change |-> IF action_type = "FreezeFunds" THEN -amount
                      ELSE IF action_type = "TradeFilled"
                      THEN TradeChanges(trade, amount, before.frozen).asset
                      ELSE amount,
     frozen_change |-> IF action_type = "FreezeFunds" THEN amount
                       ELSE IF action_type = "UnfreezeFunds" THEN -amount
                       ELSE IF action_type = "TradeFilled"
                       THEN TradeChanges(trade, amount, before.frozen).frozen
                       ELSE 0]

\* the trade_ledger row of a call: the values each call binds to its INSERT
LedgerRow(action_type, amount, trade, before) ==
    LET actual_unfreeze == IF amount > before.frozen THEN before.frozen
                           ELSE amount
        changes == TradeChanges(trade, amount, before.frozen)
    IN  [action_type |-> action_type,
         asset_change |-> IF action_type = "Deposit" THEN amount
                          ELSE IF action_type = "FreezeFunds" THEN -amount
                          ELSE IF action_type = "UnfreezeFunds"
                          THEN actual_unfreeze
                          ELSE changes.asset,
         frozen_change |-> IF action_type = "Deposit" THEN 0
                           ELSE IF action_type = "FreezeFunds" THEN amount
                           ELSE IF action_type = "UnfreezeFunds"
                           THEN -actual_unfreeze
                           ELSE changes.frozen]

StoreCalls ==
    {[op |-> o, amount |-> a, trade |-> NoTrade] :
        o \in {"Deposit", "FreezeFunds", "UnfreezeFunds"}, a \in LedgerAmounts}
    \cup {[op |-> "TradeFilled", amount |-> t.price * t.volume + over,
           trade |-> t] : t \in LedgerTrades, over \in {0, PriceUnit}}

\* pool.begin() and the SELECT of the MAIN row
TxBegin ==
    /\ tx.pc = "idle"
    /\ tx.calls < MaxTx
    /\ \E c \in StoreCalls :
          tx' = [pc |-> "begun", op |-> c.op, amount |-> c.amount,
                 trade |-> c.trade, work |-> db, before |-> db,
                 result |-> "none", calls |-> tx.calls + 1]
    /\ UNCHANGED <<db, notStore>>

\* a call returns an error: its transaction is dropped
TxReturnErr(kind) ==
    /\ db' = Rollback(db, tx.work)
    /\ tx' = [tx EXCEPT !.pc = "idle", !.result = kind]
    /\ UNCHANGED notStore

\* the balances are computed and the UPDATE of asset_status is executed;
\* freeze_funds returns InsufficientFunds before it
TxBalances ==
    /\ tx.pc = "begun"
    /\ IF tx.op = "FreezeFunds" /\ ~FreezeFunds(tx.work, tx.amount).ok
       THEN TxReturnErr("InsufficientFunds")
       ELSE /\ tx' = [tx EXCEPT !.pc = "balances", !.work =
                  IF tx.op = "Deposit" THEN DepositFunds(@, tx.amount)
                  ELSE IF tx.op = "FreezeFunds"
                  THEN [@ EXCEPT !.avail = FreezeFunds(tx.work, tx.amount).led.avail,
                                 !.frozen = FreezeFunds(tx.work, tx.amount).led.frozen]
                  ELSE IF tx.op = "UnfreezeFunds"
                  THEN UnfreezeFunds(@, tx.amount)
                  ELSE IF tx.trade.direction = "Buy"
                  THEN SettleBuy(@, tx.trade, tx.amount)
                  ELSE SettleSell(@, tx.trade)]
            /\ UNCHANGED <<db, notStore>>

\* process_trade: the SELECT of the positions row and its INSERT OR REPLACE
TxPosition ==
    /\ tx.pc = "balances"
    /\ tx.op = "TradeFilled"
    /\ tx' = [tx EXCEPT !.pc = "position",
                        !.work.pos[tx.trade.symbol] =
                            UpdatePosition(@, tx.trade.volume,
                                           tx.trade.direction = "Sell",
                                           tx.trade.price)]
    /\ UNCHANGED <<db, notStore>>

\* the INSERT into trade_ledger
TxLog ==
    /\ tx.pc = IF tx.op = "TradeFilled" THEN "position" ELSE "balances"
    /\ tx' = [tx EXCEPT !.pc = "logged",
                        !.work.log = Append(@, LedgerRow(tx.op, tx.amount, tx.trade, tx.before))]
    /\ UNCHANGED <<db, notStore>>

\* tx.commit() succeeds and the call returns Ok
TxCommit ==
    /\ tx.pc = "logged"
    /\ db' = tx.work
    /\ tx' = [tx EXCEPT !.pc = "idle", !.result = "Ok"]
    /\ UNCHANGED notStore

\* the next statement, or the commit, fails: map_err(InternalError)?
TxFail ==
    /\ tx.pc \in {"begun", "balances", "position", "logged"}
    /\ TxReturnErr("InternalError")

StoreNext ==
    \/ TxBegin
    \/ TxBalances
    \/ TxPosition
    \/ TxLog
    \/ TxCommit
    \/ TxFail

StoreSpec == Init /\ [][StoreNext]_vars

----------------------------------------------------------------------------
(* The backtest driver: BacktestDriver::run, cut at its awaits.            *)

\* take(limit) that takes everything
TakeAll(h, limit) == h

\* h.into_iter().take(limit).collect()
Take(h, limit) == SubSeq(h, 1, IF Len(h) < limit THEN Len(h) ELSE limit)

\* run up to the loop: get_stock or fetch_history fails and run returns the
\* error, or the first limit candles are kept; none kept, run returns Ok
DriverRun ==
    /\ backtest.pc = "new"
    /\ \E limit \in 0..MaxLimit, fetched \in Histories, ok \in BOOLEAN :
          LET history == Take(fetched, limit)
              b == [backtest EXCEPT !.limit = limit, !.fetchOk = ok]
          IN  backtest' =
                IF ~ok THEN [b EXCEPT !.pc = "returned", !.result = "Err"]
                ELSE IF history = <<>>
                THEN [b EXCEPT !.fetched = fetched,
                               !.pc = "returned", !.result = "Ok"]
                ELSE [b EXCEPT !.fetched = fetched, !.history = history,
                               !.pc = "loop"]
    /\ UNCHANGED notBacktest

\* one turn of the loop up to the await: set_time(candle.time), then tick
\* is called with the candle
DriverTickCall ==
    /\ backtest.pc = "loop"
    /\ backtest' = [backtest EXCEPT
                       !.clock = backtest.history[backtest.next].time,
                       !.pc = "tick"]
    /\ UNCHANGED notBacktest

\* tick returns: an error is logged; the loop goes on, and after the last
\* candle run returns Ok
DriverTickReturn ==
    /\ backtest.pc = "tick"
    /\ \E r \in {"Ok", "Err"} :
          LET last_one == backtest.next = Len(backtest.history)
          IN  backtest' = [backtest EXCEPT
                  !.ticked = Append(@, [candle |-> backtest.history[backtest.next],
                                        now |-> backtest.clock,
                                        result |-> r]),
                  !.next = @ + 1,
                  !.pc = IF last_one THEN "returned" ELSE "loop",
                  !.result = IF last_one THEN "Ok" ELSE @]
    /\ UNCHANGED notBacktest

BacktestNext ==
    \/ DriverRun
    \/ DriverTickCall
    \/ DriverTickReturn

BacktestSpec == Init /\ [][BacktestNext]_vars

----------------------------------------------------------------------------
(* Claims *)

\* C1: in every reachable state of the trade service (deposit, submit_order,
\* cancel_order, tick) every account has available_balance >= 0 and
\* frozen_balance >= 0.
C1_BalancesNonNegative ==
    \A a \in Accounts : avail[a] >= 0 /\ frozen[a] >= 0

\* C2: over any sequence of ledger operations on an account, the change of
\* available + frozen since the start equals the deposits plus the sell
\* proceeds minus the buy costs minus the commissions; freeze, unfreeze and
\* the release of an over-freeze leave the total as it is.
C2_TradeConservation ==
    \A a \in Accounts :
        (avail[a] + frozen[a]) - startTotal[a] = cashFlow[a]

\* C2 witness: a Buy with a commission has been settled out of a frozen
\* balance that did not cover it, after the total has moved
C2_Witness ==
    /\ ev.step = "process_trade"
    /\ ev.trade.direction = "Buy"
    /\ ev.trade.commission > 0
    /\ frozen[LedgerAccount] = 0
    /\ cashFlow[LedgerAccount] < 0
    /\ ledgerOps = MaxLedgerOps

ConcDone == \A t \in DOMAIN tsk : tsk[t].pc = "idle"

\* C3: n concurrent market Buys and m <= n concurrent market Sells of volume
\* v at price p, on an account that can pay every Buy with its commission:
\* no call fails, and once all have returned frozen = 0, available =
\* initial - n*v*p*(1 + rate) + m*v*p*(1 - rate), and the position is
\* (n - m)*v units, at average price p when it is not empty.
C3_ConcurrentMarketOrders ==
    /\ ev.result.kind \in {"none", "Ok"}
    /\ ConcDone =>
          /\ frozen[ConcAccount] = 0
          /\ avail[ConcAccount] =
                plan.initial
                - plan.n * (plan.v * plan.p + Commission(plan.p, plan.v))
                + plan.m * (plan.v * plan.p - Commission(plan.p, plan.v))
          /\ positions[ConcAccount][ConcSymbol].vol = (plan.n - plan.m) * plan.v
          /\ (plan.n > plan.m =>
                positions[ConcAccount][ConcSymbol].avg = plan.p)
          /\ \A i \in 1..(plan.n + plan.m) : settled[i] = 1

\* C3 witness: every order of a scenario with Buys and Sells has returned
C3_Witness ==
    /\ ConcDone
    /\ plan.n >= 2
    /\ plan.m >= 1
    /\ positions[ConcAccount][ConcSymbol].vol = (plan.n - plan.m) * plan.v

SubmitSteps == {"place_order", "host_order"}

\* the estimate the claim speaks of: the limit price, or the current price
\* for a market order, times the volume
EstimatedFunds(p, q, v) == (IF p.some THEN p.v ELSE q.v) * v

\* a Buy handed to submit_order with a quote of the set, whose estimate is
\* above the available balance, is refused with InsufficientFunds, the
\* estimate and the balance in it, and nothing of the state has moved
RefusesOverBudget(quotes) ==
    (ev'.step \in SubmitSteps /\ ev'.result.kind # "BadRequest") =>
        \A a \in Accounts, s \in Symbols, p \in OrderPrices, v \in Volumes,
           q \in quotes :
            LET order == NewOrder(nextId, a, s, "Buy", p, v)
                estimate == EstimatedFunds(p, q, v)
            IN  (/\ p.some \/ q.kind = "num"
                 /\ estimate > avail[a]
                 /\ SubmitOrder(ev'.task, ev'.step, order, q))
                => /\ ev'.result = [kind |-> "InsufficientFunds", id |-> 0,
                                    required |-> estimate,
                                    actual |-> avail[a]]
                   /\ UNCHANGED <<avail, frozen, positions, pending>>
                   /\ tsk'[ev'.task] = IdleTask

\* C4: a Buy submit_order whose estimate (limit price, or current price for
\* a market order, times volume) exceeds the available balance, on a symbol
\* whose current price is a number the decimal type holds, fails with
\* InsufficientFunds{required = estimate, actual = available}; balances,
\* positions and pending book are as before the call.
C4_InsufficientFundsRejected ==
    [][RefusesOverBudget({q \in Quotes : q.kind = "num"})]_vars

\* C4 as stated, whatever the symbol's current price is (none, or one the
\* decimal type cannot hold, included): the same refusal for every Buy whose
\* estimate is defined and exceeds the available balance.
C4_WhateverTheQuote == [][RefusesOverBudget(Quotes)]_vars

\* C4 witness: a Buy has been refused for an estimate that available +
\* frozen would cover, with funds held for an earlier order
C4_Witness ==
    /\ ev.step \in SubmitSteps
    /\ ev.result.kind = "InsufficientFunds"
    /\ ev.result.actual > 0
    /\ ev.result.actual = avail[CHOOSE a \in Accounts : TRUE]
    /\ \E a \in Accounts :
          frozen[a] > 0 /\ ev.result.required <= avail[a] + frozen[a]

\* C5: of the cancel_order calls on one order id, sequential or concurrent,
\* at most one returns success and at most one unfreeze is made for the id
\* (exactly one, with the success, for a limit Buy); every other call
\* returns OrderNotFound and leaves both balances as they are.
C5_CancelOnce ==
    [][/\ \A id \in OrderIds : cancelOk'[id] <= 1 /\ refunds'[id] <= 1
       /\ ev'.step = "cancel_order" =>
             /\ ev'.result.kind \in {"none", "Ok", "OrderNotFound"}
             /\ ev'.result.kind = "OrderNotFound" =>
                   UNCHANGED <<avail, frozen>>
             /\ ev'.result.kind # "OrderNotFound" =>
                   /\ cancelOk[ev'.order.id] = 0
                   /\ \A t \in DOMAIN tsk :
                         ~(tsk[t].pc = "removed"
                           /\ tsk[t].order.id = ev'.order.id)
       /\ ev'.step = "cancel_unfreeze" =>
             /\ ev'.result = OkResult(ev'.order.id)
             /\ cancelOk'[ev'.order.id] = 1
             /\ refunds'[ev'.order.id] = 1]_vars

\* C5 witness: a cancel_order has returned OrderNotFound for an id that a
\* concurrent cancel_order has taken out of the book and not yet refunded
C5_Witness ==
    /\ ev.step = "cancel_order"
    /\ ev.result.kind = "OrderNotFound"
    /\ \E t \in DOMAIN tsk :
          /\ tsk[t].pc = "removed"
          /\ tsk[t].order.id = ev.order.id
          /\ refunds[ev.order.id] = 0

\* C6: a limit Buy of price p and volume v submitted on balances (A, F) and
\* then cancelled: once submit_order has returned, available = A - p*v,
\* frozen = F + p*v and the order is in the pending book, Pending; once
\* cancel_order has returned, available = A, frozen = F and the id is not
\* in the pending book.
C6_SubmitCancelRoundTrip ==
    LET a == RoundTripAccount
        reserve == plan.p * plan.v
    IN  /\ ev.step = "submit_finish" =>
              /\ ev.result = OkResult(plan.id)
              /\ avail[a] = plan.initial - reserve
              /\ frozen[a] = plan.held + reserve
              /\ plan.id \in DOMAIN pending
              /\ pending[plan.id].status = "Pending"
              /\ pending[plan.id].price = SomeDec(plan.p)
              /\ pending[plan.id].volume = plan.v
        /\ ev.step = "cancel_order" => plan.id \notin DOMAIN pending
        /\ ev.step = "cancel_unfreeze" =>
              /\ ev.result = OkResult(plan.id)
              /\ avail[a] = plan.initial
              /\ frozen[a] = plan.held
              /\ plan.id \notin DOMAIN pending

\* C6 witness: the round trip is over on an account that held funds of an
\* earlier order, short of the reserve of that order
C6_Witness ==
    /\ ev.step = "cancel_unfreeze"
    /\ ev.result.kind = "Ok"
    /\ plan.held = PriceUnit - 1
    /\ plan.initial > plan.p * plan.v
    /\ frozen[RoundTripAccount] = plan.held
    /\ 1 \in DOMAIN pending

\* C7: when tick hits a pending limit order, the trade is for the order's
\* whole remaining volume at its limit price, stamped with the candle's
\* time, and settled once on the owning account; for a Buy the available
\* balance, already less limit*volume since the submit, ends less the
\* commission too, the limit*volume frozen for the order leaves the frozen
\* balance, and the position grows by the volume; the order is gone from the
\* pending book when tick removes it.
C7_TickFill ==
    [][/\ (ev'.step = "tick" /\ ev'.result.kind = "none") =>
             \A symbol \in Symbols, candle \in Candles :
                 TickWith(ev'.task, symbol, candle)
                 => tsk'[ev'.task].time = candle.time
       /\ ev'.step = "tick_match" =>
             LET t == ev'.task
                 before == CHOOSE o \in tsk[t].todo : o \notin tsk'[t].todo
                 trade == ev'.trade
                 a == before.account
                 reserve == before.price.v * (before.volume - before.filled_volume)
             IN  /\ trade.some
                 /\ trade.order_id = before.id
                 /\ trade.account = a
                 /\ trade.symbol = before.symbol
                 /\ trade.direction = before.direction
                 /\ trade.price = before.price.v
                 /\ trade.volume = before.volume - before.filled_volume
                 /\ trade.timestamp = tsk[t].time
                 /\ ev'.order.status = "Filled"
                 /\ ev'.order.filled_volume = before.volume
                 /\ settled'[before.id] = settled[before.id] + 1
                 /\ before.direction = "Buy" =>
                       /\ avail'[a] = avail[a] - trade.commission
                       /\ frozen'[a] = frozen[a] - reserve
                       /\ positions'[a][before.symbol].vol =
                             positions[a][before.symbol].vol + trade.volume
       /\ ev'.step = "tick_remove" => ev'.order.id \notin DOMAIN pending']_vars

\* the comparisons of the hit rule on the candle's own numbers: NaN compares
\* false with everything, a value above the decimal range lies above every
\* limit price
LeqF64(x, limit) == x.kind = "num" /\ x.v <= limit
GeqF64(x, limit) == x.kind = "huge" \/ (x.kind = "num" /\ x.v >= limit)

\* C8: tick(symbol, candle) picks a pending limit Buy of the symbol for
\* filling if and only if candle.low <= limit_price, and a pending limit
\* Sell if and only if candle.high >= limit_price, equality included; an
\* order it does not pick stays in the pending book as it is, and only the
\* picked orders are settled on the ledger.
C8_TickHitRule ==
    [][/\ ev'.step = "tick" =>
             \A symbol \in Symbols, candle \in Candles :
                 TickWith(ev'.task, symbol, candle) =>
                     /\ \A id \in DOMAIN pending :
                           LET o == pending[id]
                           IN  (o \in tsk'[ev'.task].todo) <=>
                               /\ o.symbol = symbol
                               /\ o.price.some
                               /\ \/ /\ o.direction = "Buy"
                                     /\ LeqF64(candle.low, o.price.v)
                                  \/ /\ o.direction = "Sell"
                                     /\ GeqF64(candle.high, o.price.v)
                     /\ UNCHANGED <<avail, frozen, positions, pending>>
       /\ ev'.step = "tick_match" =>
             /\ ev'.trade.some => ev'.trade.order_id = ev'.order.id
             /\ UNCHANGED pending
       /\ ev'.step = "tick_remove" =>
             /\ UNCHANGED <<avail, frozen, positions>>
             /\ \A id \in DOMAIN pending \ {ev'.order.id} :
                   id \in DOMAIN pending' /\ pending'[id] = pending[id]]_vars

\* 0 <= filled_volume <= volume, and Filled exactly when all is filled
OrderWellFormed(o) ==
    /\ 0 <= o.filled_volume
    /\ o.filled_volume <= o.volume
    /\ (o.status = "Filled") <=> (o.filled_volume = o.volume)

\* C9: every order, wherever it is held (in the pending book, in a call of
\* submit_order, cancel_order or tick, as the matcher left it), has
\* 0 <= filled_volume <= volume and is Filled if and only if
\* filled_volume = volume.
C9_FilledVolume ==
    /\ \A id \in DOMAIN pending : OrderWellFormed(pending[id])
    /\ \A t \in DOMAIN tsk :
          /\ tsk[t].order.status # "" => OrderWellFormed(tsk[t].order)
          /\ \A o \in tsk[t].todo : OrderWellFormed(o)
    /\ ev.order.status # "" => OrderWellFormed(ev.order)

\* C10: an order of volume 0 is rejected whoever submits it (REST route or
\* host bridge): no submit_order returns Ok for one, none is in the pending
\* book and no trade of volume 0 is made.
C10_ZeroVolumeRejected ==
    /\ \A id \in DOMAIN pending : pending[id].volume > 0
    /\ ev.trade.some => ev.trade.volume > 0
    /\ (ev.step = "submit_finish" /\ ev.result.kind = "Ok") =>
          ev.order.volume > 0

\* C11: whenever get_stock(symbol) is called while an aggregate of that
\* symbol has a live consumer handle, the call returns that aggregate and
\* creates none, whatever acquire/drop cycles and queued or late cleanup
\* messages came before.
C11_RegistryFreshness ==
    [][\A symbol \in Symbols :
          (/\ mev'.step \in {"hit", "miss"}
           /\ mev'.symbol = symbol
           /\ \E a \in AggIds :
                 aggs[a].symbol = symbol /\ aggs[a].handles > 0)
          => (mev'.step = "hit" /\ aggs[mev'.agg].handles > 0)]_vars

\* C12: a symbol never has two live aggregates: concurrent get_stock calls
\* for a symbol without a live aggregate end with one aggregate, and one
\* fetcher, for the symbol.
C12_OneLiveAggregate ==
    \A a, b \in AggIds :
        (/\ aggs[a].symbol = aggs[b].symbol
         /\ aggs[a].handles > 0
         /\ aggs[b].handles > 0) => a = b

\* nothing is in progress: no get_stock call, no cleanup message, no
\* fetcher inside update_and_broadcast
MarketQuiet ==
    /\ cleanupQ = <<>>
    /\ \A c \in Callers : caller[c].pc = "idle"
    /\ \A a \in AggIds : aggs[a].fetcher # "holding"

\* C13: once the last handle of a symbol's aggregate is dropped and no new
\* request arrives, the registry ends without an entry for the symbol,
\* however many aggregates were dropped: when nothing is left to deliver,
\* every entry of the registry names an aggregate that has a handle.
C13_Eviction ==
    MarketQuiet =>
        \A symbol \in Symbols :
            stocks[symbol] # 0 => aggs[stocks[symbol]].handles > 0

\* where a status stands in the life of an instance
Rank(text) ==
    IF text = <<"Pending">> THEN 0 ELSE IF text = <<"Running">> THEN 1 ELSE 2

\* C14: the statuses written for one instance never move backward, under
\* any interleaving of start, task completion and stop: Pending, then
\* Running, then only Stopped or Failed.
C14_StatusNeverBackward ==
    \A i, j \in 1..Len(written) :
        i < j => Rank(written[i]) <= Rank(written[j])

C16_HandleOnlyWhileLive ==
    (task.pc = "done" /\ start.pc = "returned")
        => InstanceKey \notin runningTasks

\* the instance is stopped already: by an earlier stop, or by its run
\* ending on its own
AlreadyStopped ==
    /\ status = status_to_str(Stopped)
    /\ stopper.done > 0 \/ task.pc = "done"

C18_StoppedStays ==
    stopper.done > 0 => status = status_to_str(Stopped)

\* C19: after stop_strategy has returned, the strategy receives no candle
\* and makes no onCandle call, whichever the engine.
C19_StopHalts ==
    ~engine.late

\* what the fetcher processed for a timeframe: it feeds Minute1 only
ProcessedFor(tf) == IF tf = "Minute1" THEN processed ELSE <<>>

RECURSIVE IsSubsequence(_, _)
IsSubsequence(a, b) ==
    IF a = <<>> THEN TRUE
    ELSE IF b = <<>> THEN FALSE
    ELSE IF Head(a) = Head(b) THEN IsSubsequence(Tail(a), Tail(b))
    ELSE IsSubsequence(a, Tail(b))

\* C20: what a subscriber of a timeframe has observed is a subsequence of
\* what the fetcher processed for the timeframe since the subscription:
\* nothing reordered, nothing twice, nothing from before.
C20_SubscriberOrder ==
    \A s \in Subscribers :
        subs[s].state # "none" =>
            LET all == ProcessedFor(subs[s].timeframe) IN
            IsSubsequence(subs[s].seen,
                          SubSeq(all, subs[s].since + 1, Len(all)))

\* C20 witness: one subscriber has read a candle and then lagged, so that
\* its stream has ended; another joined later and has read what came since
C20_Witness ==
    /\ subs["s1"].state = "ended"
    /\ subs["s1"].seen # <<>>
    /\ subs["s2"].since > 0
    /\ Len(subs["s2"].seen) = 2
    /\ Len(processed) = MaxFeed

\* the last min(n, c) items of a sequence of n pushes
LastPushed(pushes, c) ==
    SubSeq(pushes, IF Len(pushes) > c THEN Len(pushes) - c + 1 ELSE 1,
           Len(pushes))

\* C21: after any sequence of pushes into a rolling buffer of capacity
\* BufferCap, to_vec() is the last min(n, BufferCap) pushed items, oldest
\* first, the buffer holds at most BufferCap items, and last() is the item
\* pushed last (None before the first push).
C21_RollingBuffer ==
    /\ to_vec(cache.k) = LastPushed(processed, BufferCap)
    /\ Len(cache.k.data) <= BufferCap
    /\ last(cache.k) = IF processed = <<>> THEN NoCandle
                       ELSE processed[Len(processed)]

\* C21 witness: the buffer has wrapped and its cursor stands inside the
\* vector, the pushed items being all different
C21_Witness ==
    /\ Len(processed) = BufferCap + 1
    /\ cache.k.cursor = 1
    /\ Cardinality({processed[i] : i \in 1..Len(processed)}) = Len(processed)

\* a market Buy whose funds are frozen and whose trade is not settled yet
FrozenUnsettled(t) ==
    /\ tsk[t].pc = "quoted"
    /\ ~tsk[t].order.price.some
    /\ tsk[t].order.direction = "Buy"
    /\ tsk[t].est > 0

\* the steps that read or write the balances of the account
LedgerSteps ==
    {"place_order", "host_order", "tick_match", "cancel_unfreeze"}

\* C22: submit_order of a market order is one step on the ledger: while
\* the funds of a market Buy are frozen and not settled, no other call
\* reads or writes the ledger, so that no call observes that state.
C22_SubmitAtomic ==
    [][\A t \in Tasks :
          FrozenUnsettled(t) /\ ev'.step \in LedgerSteps => ev'.task = t]_vars

BuyerCost == plan.p * plan.v + plan.commission

\* C23: n tasks on one account holding at least n * est, each freezing est
\* and then settling a Buy that costs no more than est: every freeze
\* succeeds, and once all have settled nothing is frozen, the available
\* balance is the initial one less n times the cost, and the position is n
\* times the volume.
C23_ConcurrentBuyers ==
    /\ \A t \in DOMAIN tsk : tsk[t].pc # "refused"
    /\ (\A t \in DOMAIN tsk : tsk[t].pc = "done") =>
          /\ frozen[ConcAccount] = 0
          /\ avail[ConcAccount] = plan.initial - plan.n * BuyerCost
          /\ positions[ConcAccount][ConcSymbol].vol = plan.n * plan.v

\* C23 witness: a task settles, for less than was frozen for it, while the
\* funds of two others are frozen and those of a fourth are not yet
C23_Witness ==
    /\ plan.n = MaxConc
    /\ plan.est > BuyerCost
    /\ Cardinality({t \in DOMAIN tsk : tsk[t].pc = "frozen"}) = 2
    /\ Cardinality({t \in DOMAIN tsk : tsk[t].pc = "done"}) = 1
    /\ ev.step = "process_trade"

\* C24: the driver ticks the candles in the order they were fetched, at
\* most limit of them; while a tick runs, and when it returns, the clock
\* shows the time of its candle; an error of a tick does not stop the run,
\* which returns Ok once the first limit candles have been ticked.
C24_BacktestOrder ==
    /\ Len(backtest.ticked) <= backtest.limit
    /\ Len(backtest.ticked) <= Len(backtest.fetched)
    /\ \A i \in DOMAIN backtest.ticked :
          /\ backtest.ticked[i].candle = backtest.fetched[i]
          /\ backtest.ticked[i].now = backtest.fetched[i].time
    /\ backtest.pc = "tick" =>
          backtest.clock = backtest.fetched[Len(backtest.ticked) + 1].time
    /\ backtest.pc = "returned" /\ backtest.fetchOk =>
          /\ backtest.result = "Ok"
          /\ Len(backtest.ticked) =
                IF Len(backtest.fetched) < backtest.limit
                THEN Len(backtest.fetched) ELSE backtest.limit

\* C24 witness: more candles fetched than asked, not in ascending order;
\* the first tick failed, the second did not, and run has returned Ok
C24_Witness ==
    /\ backtest.pc = "returned"
    /\ backtest.result = "Ok"
    /\ backtest.limit = 2
    /\ Len(backtest.fetched) = 3
    /\ backtest.fetched[1].time > backtest.fetched[2].time
    /\ Len(backtest.ticked) = 2
    /\ backtest.ticked[1].result = "Err"
    /\ backtest.ticked[2].result = "Ok"

\* every order of the pending book is a limit order of status Pending
BookWellFormed ==
    \A i \in DOMAIN pending :
        pending[i].price.some /\ pending[i].status = "Pending"

\* submit_order of a limit order has passed its freeze: for a Buy price *
\* volume was available and is now frozen, for a Sell nothing has moved
LimitAccepted(t) ==
    LET o == tsk'[t].order
        amount == o.price.v * o.volume
    IN  ev'.task = t /\ ev'.step \in SubmitSteps /\ tsk'[t].pc = "quoted"
        /\ o.price.some
        => IF o.direction = "Buy"
           THEN /\ avail[o.account] >= amount
                /\ avail'[o.account] = avail[o.account] - amount
                /\ frozen'[o.account] = frozen[o.account] + amount
           ELSE avail' = avail /\ frozen' = frozen

\* C25: the pending book holds limit orders of status Pending only; an
\* order enters it only as the last step of a submit_order that has passed
\* the freeze, which for a limit Buy moved price * volume from available to
\* frozen and for a limit Sell moved nothing; a call that returns an error
\* leaves the book as it was.
C25_PendingBook ==
    [][/\ BookWellFormed'
       /\ \A t \in Tasks : LimitAccepted(t)
       /\ \A i \in DOMAIN pending' \ DOMAIN pending :
             \E t \in Tasks :
                /\ ev'.task = t /\ ev'.step = "submit_finish"
                /\ tsk[t].pc = "quoted" /\ tsk[t].order.id = i
                /\ pending'[i] = [tsk[t].order EXCEPT !.status = "Pending"]
       /\ ev'.result.kind \notin {"none", "Ok"} => pending' = pending]_vars

\* C25 witness: a limit Buy and a limit Sell are in the book, the price *
\* volume of the Buy frozen; the Sell was saved last
C25_Witness ==
    /\ \E i, j \in DOMAIN pending :
          /\ pending[i].direction = "Buy" /\ pending[j].direction = "Sell"
          /\ frozen[pending[i].account] = pending[i].price.v * pending[i].volume
          /\ frozen[pending[i].account] > 0
          /\ ev.order = pending[j]
    /\ ev.step = "submit_finish"

MinOf(a, b) == IF a < b THEN a ELSE b

\* C26: process_trade of a Buy of cost C = price * volume + commission with
\* estimate E takes C from frozen first and only what exceeds frozen from
\* available, and then, if E > C, moves min(E - C, what is left frozen)
\* back to available; of a Sell, it adds price * volume - commission to
\* available and leaves frozen as it is.
C26_Settlement ==
    [][ev'.step = "process_trade" =>
          LET trade == ev'.trade
              A == avail[trade.account]
              F == frozen[trade.account]
              C == trade.price * trade.volume + trade.commission
              E == trade.price * trade.volume + ev'.amount
              fromFrozen == MinOf(C, F)
              back == IF E > C THEN MinOf(E - C, F - fromFrozen) ELSE 0
          IN  IF trade.direction = "Buy"
              THEN /\ frozen'[trade.account] = F - fromFrozen - back
                   /\ avail'[trade.account] = A - (C - fromFrozen) + back
              ELSE /\ frozen'[trade.account] = F
                   /\ avail'[trade.account] =
                         A + trade.price * trade.volume - trade.commission]_vars

\* C26 witness: the first call is a Buy of cost 1 unit + 1 with estimate 2
\* units on balances (3 units, 1 unit): 1 was taken from available, and
\* nothing was left frozen to give back
C26_Witness ==
    /\ ledgerOps = 1
    /\ ev.step = "process_trade"
    /\ ev.trade.direction = "Buy"
    /\ ev.trade.price * ev.trade.volume = PriceUnit
    /\ ev.trade.commission = 1
    /\ ev.amount = PriceUnit
    /\ startTotal[LedgerAccount] = 4 * PriceUnit
    /\ avail[LedgerAccount] = 3 * PriceUnit - 1
    /\ frozen[LedgerAccount] = 0

Sign(x) == IF x > 0 THEN 1 ELSE IF x < 0 THEN -1 ELSE 0

\* C27: a trade of signed volume delta on a position (volume, average):
\* when the position is zero or of the sign of delta, the new average is
\* (|volume| * average + |delta| * price) / |new volume|; when delta opposes
\* it, a position that shrinks keeps its average, one that changes sign
\* takes the trade price, one that reaches zero gets average 0; a position
\* of volume 0 has average 0.
C27_PositionRule ==
    [][ev'.step = "process_trade" =>
          LET trade == ev'.trade
              old == positions[trade.account][trade.symbol]
              new == positions'[trade.account][trade.symbol]
              delta == IF trade.direction = "Buy" THEN trade.volume
                       ELSE -trade.volume
          IN  /\ new.vol = old.vol + delta
              /\ new.vol = 0 => new.avg = 0
              /\ new.vol # 0 =>
                    new.avg =
                      IF old.vol = 0 \/ Sign(old.vol) = Sign(delta)
                      THEN Div(Abs(old.vol) * old.avg + Abs(delta) * trade.price,
                               Abs(new.vol))
                      ELSE IF Sign(new.vol) = Sign(old.vol) THEN old.avg
                      ELSE trade.price]_vars

\* C28: a snapshot lists positions of non-zero volume only, whether it is
\* taken from the in-memory ledger or from the SQLite ledger, and its
\* total_equity is available + frozen.
C28_SnapshotNonZero ==
    /\ \A pos \in to_snapshot(mem).positions : pos.volume # 0
    /\ to_snapshot(mem).total_equity =
          mem.available_balance + mem.frozen_balance
    /\ \A a \in Accounts :
          /\ \A pos \in snapshot(a).positions : pos.volume # 0
          /\ snapshot(a).total_equity = avail[a] + frozen[a]

\* C29: a write of the SQLite ledger is all or nothing: while a call runs
\* the file is as the call found it, and when freeze_funds, unfreeze_funds
\* or process_trade returns an error, InsufficientFunds or a storage error
\* at any statement, balances, positions and audit log are as before the
\* call.
C29_AllOrNothing ==
    [][/\ tx'.pc # "idle" => db' = tx'.before
       /\ tx.pc # "idle" /\ tx'.pc = "idle" /\ tx'.result # "Ok" =>
             db' = tx.before]_vars

\* C29 witness: a process_trade that had written balances and position
\* has failed after a call that committed, and the file is as that call
\* left it
C29_Witness ==
    /\ tx.pc = "idle"
    /\ tx.op = "TradeFilled"
    /\ tx.result = "InternalError"
    /\ tx.work.pos # tx.before.pos
    /\ tx.work.avail # tx.before.avail
    /\ db = tx.before
    /\ db.log # <<>>

\* C30: a process_trade that fails for one hit order does not end the
\* tick: the failed order is noted for removal and every other hit order
\* stays to be matched; each of them is then settled and noted, every
\* noted order leaves the book, and tick returns Ok.
C30_TickGoesOn ==
    [][\A t \in Tasks :
          /\ ev'.task = t /\ ev'.step = "tick_match_failed" =>
                /\ tsk'[t].pc \in {"matching", "removing"}
                /\ tsk'[t].todo = {o \in tsk[t].todo : o.id # ev'.order.id}
                /\ ev'.order.id \in {tsk'[t].filled[i] : i \in DOMAIN tsk'[t].filled}
                /\ \A o \in tsk[t].todo : o.id # ev'.order.id =>
                      o \in tsk'[t].todo
          /\ ev'.task = t /\ ev'.step = "tick_match" /\ ev'.trade.some =>
                /\ settled'[ev'.order.id] = settled[ev'.order.id] + 1
                /\ ev'.order.id \in {tsk'[t].filled[i] : i \in DOMAIN tsk'[t].filled}
          /\ ev'.task = t /\ ev'.step = "tick_remove" =>
                /\ ev'.order.id \notin DOMAIN pending'
                /\ ev'.result.kind \in {"none", "Ok"}
                /\ tsk'[t].pc = "idle" <=> ev'.result.kind = "Ok"]_vars

\* C30 witness: a tick hit two orders; the settlement of the first failed,
\* the second has just been settled, and both are noted for removal
C30_Witness ==
    \E t \in Tasks :
        /\ tsk[t].pc = "removing"
        /\ Len(tsk[t].filled) = 2
        /\ settled[tsk[t].filled[1]] = 0
        /\ settled[tsk[t].filled[2]] = 1
        /\ ev.task = t
        /\ ev.step = "tick_match"

\* C31: a submit_order on a symbol whose aggregate has no current price
\* fails with InternalError, whatever the order: balances, positions,
\* pending book and settled trades are as before the call.
C31_NoQuoteRejected ==
    [][(ev'.step \in SubmitSteps /\ ev'.result.kind # "BadRequest") =>
          \A a \in Accounts, s \in Symbols, d \in {"Buy", "Sell"},
             p \in OrderPrices, v \in Volumes :
              SubmitOrder(ev'.task, ev'.step,
                          NewOrder(nextId, a, s, d, p, v), NoQuote)
              => /\ ev'.result = ErrResult("InternalError")
                 /\ UNCHANGED <<avail, frozen, positions, pending, settled>>
                 /\ tsk'[ev'.task] = IdleTask]_vars

\* C31 witness: a submit_order has failed with InternalError on an account
\* that holds funds and has an order in the book, and nothing is frozen
C31_Witness ==
    /\ ev.step \in SubmitSteps
    /\ ev.result.kind = "InternalError"
    /\ \E a \in Accounts : avail[a] > 0 /\ frozen[a] = 0
    /\ DOMAIN pending # {}

\* the last final candle of a sequence of candles, None when it has none
RECURSIVE LastFinal(_)
LastFinal(seq) ==
    IF seq = <<>> THEN NoCandle
    ELSE IF seq[Len(seq)].is_final THEN seq[Len(seq)]
    ELSE LastFinal(SubSeq(seq, 1, Len(seq) - 1))

\* C32: last_closed_candle is None until a final candle has been
\* processed and is then the final candle processed last; every candle,
\* forming or final, becomes latest_candle and sets the current price.
C32_LastClosed ==
    /\ cache.lc = LastFinal(processed)
    /\ processed # <<>> =>
          /\ cache.l = processed[Len(processed)]
          /\ cache.p = processed[Len(processed)].close

\* C32 witness: a final candle, then a forming candle of a later time:
\* latest_candle and the price have moved on, last_closed_candle has not
C32_Witness ==
    /\ Len(processed) = 3
    /\ ~processed[1].is_final
    /\ processed[2].is_final
    /\ ~processed[3].is_final
    /\ processed[3].time > processed[2].time
    /\ cache.lc = processed[2]
    /\ cache.l = processed[3]
    /\ cache.p # cache.lc.close

\* C33: when the last strong count of an aggregate is released, by the
\* last consumer or by the fetcher after the consumers have gone, the
\* destructor's notification reaches the registry: the symbol is
\* appended to the cleanup channel; and a fetcher that has left its loop
\* belongs to an aggregate without a consumer.
C33_FetcherExits ==
    [][/\ (/\ mev'.step \in {"drop", "release"}
           /\ Alive(mev'.agg)
           /\ ~(aggs'[mev'.agg].handles > 0
                   \/ aggs'[mev'.agg].fetcher = "holding"))
          => cleanupQ' = Append(cleanupQ, mev'.symbol)
       /\ \A a \in AggIds :
             aggs'[a].fetcher = "exited" => aggs'[a].handles = 0]_vars

\* C34: a failure of the host bridge's injection or of the strategy's
\* loading ends the run with that error before the candle stream is
\* subscribed: the engine has returned an error and has handled no candle.
C34_LoadFailureReturned ==
    engine.setup = "failed" =>
        /\ engine.pc = "finished"
        /\ ~engine.result.ok
        /\ engine.candles = 0

\* C35: for an order that is Pending or Submitted the matcher returns one
\* trade for the remaining volume, at the order's price or else at the
\* reference price, with commission = price * volume * 0.0001, and leaves
\* the order Filled with filled_volume = volume; for any other status it
\* returns no trade and leaves the order as it was; a second execution
\* of the same order returns no further trade.
C35_Matcher ==
    [][/\ ev'.step = "execute" =>
             LET o == tsk'[ev'.task].order
                 trade == ev'.trade IN
               IF o.status \in {"Pending", "Submitted"}
               THEN /\ trade.some
                    /\ trade.order_id = o.id
                    /\ trade.direction = o.direction
                    /\ trade.volume = o.volume - o.filled_volume
                    /\ trade.price = IF o.price.some THEN o.price.v
                                     ELSE tsk'[ev'.task].latest
                    /\ trade.commission * RateDen = trade.price * trade.volume
                    /\ ev'.order = [o EXCEPT !.status = "Filled",
                                             !.filled_volume = o.volume]
               ELSE /\ ~trade.some
                    /\ ev'.order = o
       /\ ev'.step = "execute_again" =>
             /\ ~(ev.trade.some /\ ev'.trade.some)
             /\ ev.trade.some => ev'.order = ev.order]_vars

\* C35 witness: a Submitted order of volume 2 with 1 already filled and
\* no price of its own was executed at the reference price for the
\* remaining 1, and executing it again gave no trade
C35_Witness ==
    /\ ev.step = "execute_again"
    /\ ~ev.trade.some
    /\ ev.order.status = "Filled"
    /\ ev.order.filled_volume = 2
    /\ tsk[ev.task].order.status = "Submitted"
    /\ tsk[ev.task].order.filled_volume = 1
    /\ ~tsk[ev.task].order.price.some

\* what the pending Buy orders of an account with an id up to n reserve:
\* limit price * (volume - filled_volume)
RECURSIVE Reserved(_, _)
Reserved(a, n) ==
    IF n = 0 THEN 0
    ELSE Reserved(a, n - 1) +
         (IF /\ n \in DOMAIN pending
             /\ pending[n].account = a
             /\ pending[n].direction = "Buy"
             /\ pending[n].price.some
          THEN pending[n].price.v * (pending[n].volume - pending[n].filled_volume)
          ELSE 0)

\* C36: when no submit_order, cancel_order or tick is in progress, the
\* frozen balance of each account is the sum of limit price * (volume -
\* filled_volume) over its Buy orders in the pending book.
C36_FrozenIsReserved ==
    (\A t \in Tasks : tsk[t].pc = "idle") =>
        \A a \in Accounts : frozen[a] = Reserved(a, MaxOrders)

\* C37: no order is both cancelled and filled: an order whose cancel_order
\* returned success has no trade settled on the ledger, and the other way
\* round, also when cancel_order and tick run at the same time.
C37_CancelledOrFilled ==
    \A id \in OrderIds : ~(cancelOk[id] > 0 /\ settled[id] > 0)

\* C38: ensure_account_exists never alters an account that exists: a step
\* of an ensure_account_exists call, made alone or beside another call,
\* leaves the balances and the positions of an existing account as they
\* are.
C38_EnsureKeepsAccount ==
    [][(ensure.exists /\ ensure' # ensure) =>
          /\ mem'.available_balance = mem.available_balance
          /\ mem'.frozen_balance = mem.frozen_balance
          /\ mem'.positions = mem.positions]_vars

\* the sum of a column of the trade_ledger rows
RECURSIVE SumAsset(_)
SumAsset(log) ==
    IF log = <<>> THEN 0 ELSE log[1].asset_change + SumAsset(Tail(log))

RECURSIVE SumFrozen(_)
SumFrozen(log) ==
    IF log = <<>> THEN 0 ELSE log[1].frozen_change + SumFrozen(Tail(log))

C40_BuildErrorLeavesPending ==
    [][/\ sev'.step = "build" =>
             /\ sev'.result = "Err"
             /\ start'.pc = "failed"
             /\ status' = status
             /\ written' = written
             /\ runningTasks' = runningTasks
             /\ task' = task
             /\ engine' = engine
       /\ start'.pc = "failed" =>
             /\ task'.pc = "none"
             /\ engine'.pc = "none"
             /\ runningTasks' = {}
             /\ status' # <<>>
             /\ status' = IF stopper'.done = 0 THEN status_to_str(Pending)
                          ELSE status_to_str(Stopped)]_vars

\* C40 witness: the build has failed and the call has returned; the row
\* is there with status Pending, the only status ever written
C40_Witness ==
    /\ start.pc = "failed"
    /\ start.engine_type = "JavaScript"
    /\ status = status_to_str(Pending)
    /\ written = <<status_to_str(Pending)>>
    /\ task.pc = "none"
    /\ runningTasks = {}
    /\ stopper.pc = "aborted"

====
